---- MODULE Spec2Model ----
(***************************************************************************)
(* A model of digital_eval/evaluation.py: the Evaluator (eval_all,         *)
(* eval_entry, aggregate, eval_map), the outlier statistics, the geometry  *)
(* filters and the ALTO/PAGE extraction of OCRData.                        *)
(*                                                                         *)
(* Texts are small naturals (0 is the empty text), paths are sequences of  *)
(* path segments, labels are sequences of characters.                      *)
(***************************************************************************)
EXTENDS Integers, Sequences, FiniteSets, TLC

VARIABLES
    pc,                  \* position of the Evaluator: "idle", "par", "done"; of
                         \* a document: "parsed", "ocr_data", "pieces"
    entries,             \* the list handed to eval_all
    sequential,          \* the flag handed to eval_all
    evaluation_entries,  \* Evaluator.evaluation_entries
    metrics_heap,        \* the metric objects: reference -> list of metrics
    pool,                \* the tasks of the process pool, by input position
    timed_out,           \* executor.map ran into its timeout
    domain_candidate,    \* Evaluator.domain_candidate
    domain_reference,    \* Evaluator.domain_reference
    evaluation_map,      \* Evaluator.evaluation_map, in insertion order
    evaluation_results,  \* Evaluator.evaluation_results
    calls,               \* how many aggregate and eval_map calls were made
    last_call,           \* the last call on the Evaluator and its arguments
    stripped,            \* what the last strip_outliers_from call returned
    raised,              \* the error the last operation ended with, or "none"
    blocks,              \* OCRData.blocks
    frame,               \* the frame of the last filter call
    filter_lines,        \* what OCRData.filter_all returned
    top_piece,           \* the Piece tree handed to filter_word_pieces
    xml_doc,             \* the XML document OCRData reads
    type_groundtruth,    \* OCRData.type_groundtruth
    files,               \* the files and directories of the file system
    path_groundtruth     \* what find_groundtruth returned

vars == <<pc, entries, sequential, evaluation_entries, metrics_heap, pool,
          timed_out, domain_candidate, domain_reference, evaluation_map,
          evaluation_results, calls, last_call, stripped, raised, blocks, frame, filter_lines, top_piece,
          xml_doc, type_groundtruth, files, path_groundtruth>>

evalVars == <<pc, entries, sequential, evaluation_entries, metrics_heap, pool,
              timed_out>>
aggVars == <<domain_candidate, domain_reference, evaluation_map,
             evaluation_results, calls, last_call, stripped>>
docVars == <<blocks, frame, filter_lines, top_piece, xml_doc>>
matchVars == <<type_groundtruth, files, path_groundtruth>>

\* ------------------------------------------------------------------------
\* Bounds of the model
\* ------------------------------------------------------------------------

\* longest list of entries handed to eval_all
MaxEntries == 3

\* most calls of aggregate and eval_map on one Evaluator
MaxCalls == 2

\* most data points under one key, and the largest metric value, of the
\* value lists the statistics are checked on
MaxPoints == 4
MaxValue == 4

\* ------------------------------------------------------------------------
\* Generic helpers
\* ------------------------------------------------------------------------

Range(s) == {s[i] : i \in 1..Len(s)}

RECURSIVE SumSeq(_)
SumSeq(s) == IF s = <<>> THEN 0 ELSE Head(s) + SumSeq(Tail(s))

\* str.startswith on sequences of characters
StartsWith(s, p) == Len(s) >= Len(p) /\ SubSeq(s, 1, Len(p)) = p

\* ------------------------------------------------------------------------
\* Paths: a path is the sequence of its parts (pathlib's Path.parts)
\* ------------------------------------------------------------------------

\* the rank of a path segment in Python's string order
SegRank(s) ==
    CASE s = "/" -> 0
      [] s = "a" -> 1
      [] s = "b" -> 2
      [] s = "cand" -> 3
      [] s = "f1.xml" -> 4
      [] s = "f2.xml" -> 5
      [] s = "f3.xml" -> 6
      [] s = "f4.xml" -> 7
      [] s = "f5.xml" -> 8
      [] s = "f6.xml" -> 9
      [] s = "gt" -> 10
      [] OTHER -> 11

\* p < q in the order sorted(key=lambda e: e.path_c) uses
RECURSIVE PathLess(_, _)
PathLess(p, q) ==
    IF q = <<>> THEN FALSE
    ELSE IF p = <<>> THEN TRUE
    ELSE IF Head(p) = Head(q) THEN PathLess(Tail(p), Tail(q))
    ELSE SegRank(Head(p)) < SegRank(Head(q))

\* os.path.dirname of a path with at least one directory above the file
Dirname(p) == SubSeq(p, 1, Len(p) - 1)

\* ------------------------------------------------------------------------
\* The files of a run and the metric collaborators
\* ------------------------------------------------------------------------

\* mark unset values as 'not available'
NOT_SET == <<"n", ".", "a", ".">>

\* the number of metric collaborators the Evaluator is built with
NumMetrics == 7

\* entry.path_g of an entry without groundtruth (Python's None)
NoPath == 0

\* the groundtruth files an entry's path_g may name:
\*   1 does not exist, 2 holds no text, 3 and 4 hold the texts 1 and 2
GtPaths == 1..4

GtFile(g) ==
    CASE g = 1 -> [exists |-> FALSE, text |-> 0, label |-> NOT_SET]
      [] g = 2 -> [exists |-> TRUE, text |-> 0,
                   label |-> <<"a", "r", "t", "i", "c", "l", "e">>]
      [] g = 3 -> [exists |-> TRUE, text |-> 1, label |-> NOT_SET]
      [] OTHER -> [exists |-> TRUE, text |-> 2,
                   label |-> <<"a", "r", "t", "i", "c", "l", "e">>]

\* the candidate files, by number
CandidateFile(k) ==
    CASE k = 1 -> <<"/", "cand", "f1.xml">>
      [] k = 2 -> <<"/", "cand", "a", "f2.xml">>
      [] k = 3 -> <<"/", "cand", "a", "b", "f3.xml">>
      [] OTHER -> <<"/", "cand", "f4.xml">>

\* the text ocr_to_text reads from a candidate file
CandidateText(path_c) ==
    IF path_c[Len(path_c)] \in {"f1.xml", "f3.xml"} THEN 1 ELSE 2

Abs(x) == IF x < 0 THEN -x ELSE x

MetricLabel(i) ==
    CASE i = 1 -> "CA"
      [] i = 2 -> "LA"
      [] i = 3 -> "WA"
      [] i = 4 -> "BoW"
      [] i = 5 -> "Pre"
      [] i = 6 -> "Rec"
      [] OTHER -> "FM"

\* a metric collaborator before its first calc()
NewMetric(i) == [label |-> MetricLabel(i), value |-> -1, n_ref |-> -1]

\* calc() of the i-th metric collaborator on a reference and a candidate text
MetricCalc(i, input_reference, input_candidate) ==
    [label |-> MetricLabel(i),
     value |-> 100 - 10 * i * Abs(input_reference - input_candidate),
     n_ref |-> 10 * input_reference]

\* ------------------------------------------------------------------------
\* EvalEntry and Evaluator.eval_entry
\* ------------------------------------------------------------------------

\* the reference of Evaluator.metrics in metrics_heap
SelfMetrics == 0

\* the reference of an entry's own, empty, metrics list
OwnEmpty == -1

EvalEntry(path) ==
    [path_c |-> path, path_g |-> NoPath, gt_type |-> NOT_SET,
     metrics |-> OwnEmpty]

\* the metric objects an entry's metrics field refers to
MetricsOf(heap, e) == IF e.metrics = OwnEmpty THEN <<>> ELSE heap[e.metrics]

\* _normalize_gt_type that compares the whole label with the prefix
_normalize_gt_type_by_equality(label) ==
    IF label = <<"a", "r", "t">>
    THEN <<"a", "r", "t", "i", "c", "l", "e">>
    ELSE IF label = <<"a", "n", "n">>
    THEN <<"a", "n", "n", "o", "u", "n", "c", "e", "m", "e", "n", "t">>
    ELSE NOT_SET

_normalize_gt_type(label) ==
    IF StartsWith(label, <<"a", "r", "t">>)
    THEN <<"a", "r", "t", "i", "c", "l", "e">>
    ELSE IF StartsWith(label, <<"a", "n", "n">>)
    THEN <<"a", "n", "n", "o", "u", "n", "c", "e", "m", "e", "n", "t">>
    ELSE NOT_SET

\* eval_entry with the entry recorded before its groundtruth text is checked
eval_entry_records_first(heap, evs, entry) ==
    LET gt == GtFile(entry.path_g) IN
    IF entry.path_g = NoPath
    THEN [raised |-> "TypeError", heap |-> heap, evs |-> evs, entry |-> entry]
    ELSE IF ~gt.exists
    THEN [raised |-> "IOError", heap |-> heap, evs |-> evs, entry |-> entry]
    ELSE IF gt.text = 0
    THEN [raised |-> "RuntimeError", heap |-> heap, evs |-> Append(evs, entry),
          entry |-> entry]
    ELSE
        LET txt_c == CandidateText(entry.path_c)
            calculated == [i \in 1..NumMetrics |-> MetricCalc(i, gt.text, txt_c)]
            enriched == [entry EXCEPT !.gt_type = _normalize_gt_type(gt.label),
                                      !.metrics = SelfMetrics]
        IN [raised |-> "none",
            heap |-> [heap EXCEPT ![SelfMetrics] = calculated],
            evs |-> Append(evs, enriched),
            entry |-> enriched]

\* eval_entry on an Evaluator whose metric objects are heap[SelfMetrics] and
\* whose evaluation_entries are evs: the error raised, or "none" with the
\* Evaluator and the entry as the call leaves them
eval_entry(heap, evs, entry) ==
    LET gt == GtFile(entry.path_g) IN
    IF entry.path_g = NoPath
    THEN [raised |-> "TypeError", heap |-> heap, evs |-> evs, entry |-> entry]
    ELSE IF ~gt.exists
    THEN [raised |-> "IOError", heap |-> heap, evs |-> evs, entry |-> entry]
    ELSE IF gt.text = 0
    THEN [raised |-> "RuntimeError", heap |-> heap, evs |-> evs,
          entry |-> entry]
    ELSE
        LET txt_c == CandidateText(entry.path_c)
            calculated == [i \in 1..NumMetrics |-> MetricCalc(i, gt.text, txt_c)]
            enriched == [entry EXCEPT !.gt_type = _normalize_gt_type(gt.label),
                                      !.metrics = SelfMetrics]
        IN [raised |-> "none",
            heap |-> [heap EXCEPT ![SelfMetrics] = calculated],
            evs |-> Append(evs, enriched),
            entry |-> enriched]

\* _wrap_eval_entry in a worker process, on the unpickled copy of the
\* Evaluator: the entry it returns with its metrics by value, or None
_wrap_eval_entry(heap, evs, entry) ==
    IF entry.path_g # NoPath
    THEN LET r == eval_entry(heap, evs, entry) IN
         IF r.raised = "none"
         THEN [state |-> "done", ret |-> "entry", entry |-> r.entry,
               metrics |-> r.heap[SelfMetrics]]
         ELSE [state |-> "done", ret |-> "None", entry |-> entry,
               metrics |-> <<>>]
    ELSE [state |-> "done", ret |-> "None", entry |-> entry, metrics |-> <<>>]

\* sorted(..., key=lambda e: e.path_c): a stable sort
RECURSIVE InsertByPath(_, _)
InsertByPath(sorted, e) ==
    IF sorted = <<>> THEN <<e>>
    ELSE IF PathLess(e.path_c, Head(sorted).path_c)
    THEN <<e>> \o sorted
    ELSE <<Head(sorted)>> \o InsertByPath(Tail(sorted), e)

RECURSIVE SortByPath(_)
SortByPath(es) ==
    IF es = <<>> THEN <<>>
    ELSE InsertByPath(SortByPath(SubSeq(es, 1, Len(es) - 1)), es[Len(es)])

\* one round of the sequential loop of eval_all
SeqBody(st, e) ==
    IF e.path_g # NoPath
    THEN LET r == eval_entry(st.heap, st.evs, e) IN
         \* try/except: an error ends the call, the loop goes on
         [heap |-> r.heap, evs |-> r.evs]
    ELSE st

RECURSIVE SeqLoop(_, _)
SeqLoop(st, es) ==
    IF es = <<>> THEN st ELSE SeqLoop(SeqBody(st, Head(es)), Tail(es))

\* the lists of entries eval_all is handed: candidates in any order, each
\* with the groundtruth path the matcher found for it, if any
EntryListsOfLen(n) ==
    {[i \in 1..n |-> [EvalEntry(CandidateFile(ks[i])) EXCEPT !.path_g = gs[i]]] :
        ks \in {f \in [1..n -> 1..MaxEntries] :
                    \A i, j \in 1..n : i # j => f[i] # f[j]},
        gs \in [1..n -> {NoPath} \cup GtPaths]}

Pending(e) == [state |-> "pending", ret |-> "None", entry |-> e,
               metrics |-> <<>>]

\* ------------------------------------------------------------------------
\* Evaluator.__init__ and Evaluator.eval_all
\* ------------------------------------------------------------------------

\* no call of aggregate or eval_map was made yet
NoCall == [op |-> "none", by_type |-> FALSE, by_metrics |-> <<>>]

\* Evaluator.__init__: the fields eval_all works on
InitEvaluator ==
    /\ pc = "idle"
    /\ entries = <<>>
    /\ sequential = FALSE
    /\ evaluation_entries = <<>>
    /\ metrics_heap = [r \in {SelfMetrics} |-> [i \in 1..NumMetrics |-> NewMetric(i)]]
    /\ pool = <<>>
    /\ timed_out = FALSE

\* no document is loaded
NoDocument ==
    /\ blocks = <<>>
    /\ frame = <<>>
    /\ filter_lines = <<>>
    /\ top_piece = <<>>
    /\ xml_doc = <<>>

\* no file was looked for, no groundtruth type was read
NoMatching ==
    /\ type_groundtruth = NOT_SET
    /\ files = {}
    /\ path_groundtruth = <<>>

InitEval ==
    /\ InitEvaluator
    /\ domain_candidate = [parts |-> <<"/", "cand">>, is_dir |-> TRUE]
    /\ domain_reference = <<>>
    /\ evaluation_map = <<>>
    /\ evaluation_results = <<>>
    /\ calls = 0
    /\ last_call = NoCall
    /\ stripped = <<>>
    /\ raised = "none"
    /\ NoDocument
    /\ NoMatching

\* eval_all(entries, sequential=True)
EvalAllSequential ==
    /\ pc = "idle"
    /\ \E n \in 0..MaxEntries : \E es \in EntryListsOfLen(n) :
        LET st == SeqLoop([heap |-> metrics_heap, evs |-> evaluation_entries], es)
        IN /\ entries' = es
           /\ metrics_heap' = st.heap
           /\ evaluation_entries' = SortByPath(st.evs)
    /\ sequential' = TRUE
    /\ pc' = "done"
    /\ UNCHANGED <<pool, timed_out, aggVars, raised, docVars,
                   matchVars>>

\* eval_all(entries, sequential=False) up to executor.map: one task per entry
Dispatch ==
    /\ pc = "idle"
    /\ \E n \in 0..MaxEntries : \E es \in EntryListsOfLen(n) :
        /\ entries' = es
        /\ pool' = [k \in 1..Len(es) |-> Pending(es[k])]
    /\ sequential' = FALSE
    /\ pc' = "par"
    /\ UNCHANGED <<evaluation_entries, metrics_heap, timed_out, aggVars, raised,
                   docVars,
                   matchVars>>

\* a worker process runs task k on its own copy of the Evaluator
WorkerRun(k) ==
    /\ pc = "par"
    /\ pool[k].state = "pending"
    /\ pool' = [pool EXCEPT ![k] =
                   _wrap_eval_entry(metrics_heap, evaluation_entries, pool[k].entry)]
    /\ UNCHANGED <<pc, entries, sequential, evaluation_entries, metrics_heap,
                   timed_out, aggVars, raised, docVars,
                   matchVars>>

\* the entries executor.map returned that are not None, each with the metric
\* objects that were unpickled with it
RECURSIVE NotNones(_, _)
NotNones(tasks, k) ==
    IF k > Len(tasks) THEN <<>>
    ELSE IF tasks[k].ret = "entry"
    THEN <<[tasks[k].entry EXCEPT !.metrics = k]>> \o NotNones(tasks, k + 1)
    ELSE NotNones(tasks, k + 1)

\* list(executor.map(...)) returns: the rest of eval_all
Collect ==
    /\ pc = "par"
    /\ \A k \in 1..Len(pool) : pool[k].state = "done"
    /\ IF Len(pool) > 0
       THEN /\ evaluation_entries' = SortByPath(NotNones(pool, 1))
            /\ metrics_heap' =
                   [r \in {SelfMetrics} \cup {k \in 1..Len(pool) : pool[k].ret = "entry"} |->
                       IF r = SelfMetrics THEN metrics_heap[SelfMetrics]
                       ELSE pool[r].metrics]
       ELSE /\ evaluation_entries' = SortByPath(evaluation_entries)
            /\ UNCHANGED metrics_heap
    /\ pc' = "done"
    /\ UNCHANGED <<entries, sequential, pool, timed_out, aggVars, raised, docVars,
                   matchVars>>

\* executor.map raises its timeout: _entries stays empty, the rest of eval_all
Timeout ==
    /\ pc = "par"
    /\ \E k \in 1..Len(pool) : pool[k].state = "pending"
    /\ timed_out' = TRUE
    /\ evaluation_entries' = SortByPath(evaluation_entries)
    /\ pc' = "done"
    /\ UNCHANGED <<entries, sequential, pool, metrics_heap, aggVars, raised,
                   docVars,
                   matchVars>>

NextEval ==
    \/ EvalAllSequential
    \/ Dispatch
    \/ \E k \in 1..Len(pool) : WorkerRun(k)
    \/ Collect
    \/ Timeout

SpecEval == InitEval /\ [][NextEval]_vars

\* ------------------------------------------------------------------------
\* Claims about eval_all
\* ------------------------------------------------------------------------

\* what a report reads of an entry: its path, its type and its metric values
EntryView(heap, e) ==
    [path_c |-> e.path_c,
     gt_type |-> e.gt_type,
     metrics |-> [i \in 1..Len(MetricsOf(heap, e)) |->
                     <<MetricsOf(heap, e)[i].value, MetricsOf(heap, e)[i].n_ref>>]]

ResultView(heap, evs) == [k \in 1..Len(evs) |-> EntryView(heap, evs[k])]

\* eval_all(es, sequential=True) on a newly built Evaluator
SequentialView(es) ==
    LET fresh == [r \in {SelfMetrics} |-> [i \in 1..NumMetrics |-> NewMetric(i)]]
        st == SeqLoop([heap |-> fresh, evs |-> <<>>], es)
    IN ResultView(st.heap, SortByPath(st.evs))

\* the entries eval_entry evaluates without an error: the groundtruth path is
\* set, the file exists and holds text
Evaluable(e) ==
    /\ e.path_g # NoPath
    /\ GtFile(e.path_g).exists
    /\ GtFile(e.path_g).text # 0

\* C1: a parallel eval_all that did not time out leaves the evaluation_entries
\* (paths in order, groundtruth types, metric values) that a sequential
\* eval_all of the same entries leaves.
C1_SequentialParallelEquivalent ==
    (pc = "done" /\ ~sequential /\ ~timed_out) =>
        ResultView(metrics_heap, evaluation_entries) = SequentialView(entries)

\* C2: after eval_all every recorded entry carries, at every metric position,
\* the value and n_ref the metric computed from that entry's own groundtruth
\* text and candidate text.
C2_ScoresUnaltered ==
    (pc = "done" /\ ~timed_out) =>
        \A k \in 1..Len(evaluation_entries) :
            LET e == evaluation_entries[k]
                own(i) == MetricCalc(i, GtFile(e.path_g).text, CandidateText(e.path_c))
            IN /\ Len(MetricsOf(metrics_heap, e)) = NumMetrics
               /\ \A i \in 1..NumMetrics :
                    /\ MetricsOf(metrics_heap, e)[i].value = own(i).value
                    /\ MetricsOf(metrics_heap, e)[i].n_ref = own(i).n_ref

\* C3: in both modes, absent a timeout, evaluation_entries holds exactly once
\* each input entry with a groundtruth path whose evaluation raised no error,
\* and no other entry.
C3_FaultIsolation ==
    (pc = "done" /\ ~timed_out) =>
        /\ \A i, j \in 1..Len(evaluation_entries) :
            i # j => evaluation_entries[i].path_c # evaluation_entries[j].path_c
        /\ {evaluation_entries[i].path_c : i \in 1..Len(evaluation_entries)}
             = {entries[i].path_c : i \in {j \in 1..Len(entries) : Evaluable(entries[j])}}

\* C3, reached: a failing entry and one without groundtruth precede an
\* entry that is evaluated and recorded.
C3_Witness ==
    /\ pc = "done"
    /\ ~timed_out
    /\ Len(entries) = 3
    /\ entries[1].path_g = 2
    /\ entries[2].path_g = NoPath
    /\ Evaluable(entries[3])
    /\ Len(evaluation_entries) = 1
    /\ evaluation_entries[1].path_c = entries[3].path_c

\* ------------------------------------------------------------------------
\* Statistics: strip_outliers_from and get_statistics
\*
\* Data points are integers.  A number numpy computes from them is the exact
\* fraction [num, den] in lowest terms; NaN (the median or mean of an empty
\* list) is the fraction with den = 0.
\* ------------------------------------------------------------------------

RECURSIVE GCD(_, _)
GCD(a, b) == IF b = 0 THEN a ELSE GCD(b, a % b)

NaN == [num |-> 0, den |-> 0]

IsNaN(q) == q.den = 0

\* the fraction n/d, d > 0, in lowest terms
Frac(n, d) == LET g == GCD(Abs(n), d) IN [num |-> n \div g, den |-> d \div g]

\* q < r and q <= r for fractions; a comparison with NaN is false
FracLess(q, r) == ~IsNaN(q) /\ ~IsNaN(r) /\ q.num * r.den < r.num * q.den
FracLeq(q, r) == ~IsNaN(q) /\ ~IsNaN(r) /\ q.num * r.den <= r.num * q.den

FracAdd(q, r) ==
    IF IsNaN(q) \/ IsNaN(r) THEN NaN
    ELSE Frac(q.num * r.den + r.num * q.den, q.den * r.den)

FracSub(q, r) ==
    IF IsNaN(q) \/ IsNaN(r) THEN NaN
    ELSE Frac(q.num * r.den - r.num * q.den, q.den * r.den)

\* 1.5 * q
FracTimesOneAndAHalf(q) == IF IsNaN(q) THEN NaN ELSE Frac(3 * q.num, 2 * q.den)

RECURSIVE InsertSorted(_, _)
InsertSorted(sorted, v) ==
    IF sorted = <<>> THEN <<v>>
    ELSE IF v < Head(sorted) THEN <<v>> \o sorted
    ELSE <<Head(sorted)>> \o InsertSorted(Tail(sorted), v)

RECURSIVE SortInts(_)
SortInts(s) == IF s = <<>> THEN <<>> ELSE InsertSorted(SortInts(Tail(s)), Head(s))

\* np.median
Median(data_points) ==
    LET n == Len(data_points)
        sorted == SortInts(data_points)
    IN IF n = 0 THEN NaN
       ELSE IF n % 2 = 1 THEN Frac(sorted[(n + 1) \div 2], 1)
       ELSE Frac(sorted[n \div 2] + sorted[n \div 2 + 1], 2)

\* np.mean
Mean(data_points) ==
    IF data_points = <<>> THEN NaN
    ELSE Frac(SumSeq(data_points), Len(data_points))

\* the square of np.std: the population variance, divided by N
StdSquared(data_points) ==
    LET n == Len(data_points)
        sum == SumSeq(data_points)
        squares == SumSeq([i \in 1..n |-> data_points[i] * data_points[i]])
    IN IF n = 0 THEN NaN ELSE Frac(n * squares - sum * sum, n * n)

\* std >= 1.0, for a std given by its square
StdAtLeastOne(std_squared) == FracLeq(Frac(1, 1), std_squared)

\* get_statistics with the sample deviation, divided by N - 1
get_statistics_sample_std(data_points) ==
    LET n == Len(data_points)
        sum == SumSeq(data_points)
        squares == SumSeq([i \in 1..n |-> data_points[i] * data_points[i]])
    IN <<Mean(data_points),
         IF n < 2 THEN NaN ELSE Frac(n * squares - sum * sum, n * (n - 1)),
         Median(data_points)>>

\* get_statistics: (mean, std, median), the std given by its square
get_statistics(data_points) ==
    <<Mean(data_points), StdSquared(data_points), Median(data_points)>>

\* [e[1] for e in data_tuples]: a data tuple is (path, value, n_ref)
DataPoints(data_tuples) == [i \in 1..Len(data_tuples) |-> data_tuples[i][2]]

\* strip_outliers_from with the outliers clamped to the fence instead of dropped
strip_outliers_clamping(data_tuples) ==
    LET data_points == DataPoints(data_tuples)
        median == Median(data_points)
        Q1 == Median(SelectSeq(data_points, LAMBDA v : FracLess(Frac(v, 1), median)))
        Q3 == Median(SelectSeq(data_points, LAMBDA v : FracLess(median, Frac(v, 1))))
        lower == FracSub(Q1, FracTimesOneAndAHalf(FracSub(Q3, Q1)))
        upper == FracAdd(Q1, FracTimesOneAndAHalf(FracSub(Q3, Q1)))
        clamp(data) ==
            IF IsNaN(lower) THEN data
            ELSE IF FracLess(upper, Frac(data[2], 1))
            THEN <<data[1], upper.num \div upper.den, data[3]>>
            ELSE IF FracLess(Frac(data[2], 1), lower)
            THEN <<data[1], -((-lower.num) \div lower.den), data[3]>>
            ELSE data
    IN <<[i \in 1..Len(data_tuples) |-> clamp(data_tuples[i])], Q1, Q3>>

\* strip_outliers_from with the upper fence at Q3 + 1.5 * (Q3 - Q1)
strip_outliers_upper_fence_at_Q3(data_tuples) ==
    LET data_points == DataPoints(data_tuples)
        median == Median(data_points)
        Q1 == Median(SelectSeq(data_points, LAMBDA v : FracLess(Frac(v, 1), median)))
        Q3 == Median(SelectSeq(data_points, LAMBDA v : FracLess(median, Frac(v, 1))))
        lower == FracSub(Q1, FracTimesOneAndAHalf(FracSub(Q3, Q1)))
        upper == FracAdd(Q3, FracTimesOneAndAHalf(FracSub(Q3, Q1)))
        regular(data) ==
            /\ FracLeq(lower, Frac(data[2], 1))
            /\ FracLeq(Frac(data[2], 1), upper)
    IN <<SelectSeq(data_tuples, regular), Q1, Q3>>

\* strip_outliers_from: (regulars, Q1, Q3)
strip_outliers_from(data_tuples) ==
    LET data_points == DataPoints(data_tuples)
        median == Median(data_points)
        Q1 == Median(SelectSeq(data_points, LAMBDA v : FracLess(Frac(v, 1), median)))
        Q3 == Median(SelectSeq(data_points, LAMBDA v : FracLess(median, Frac(v, 1))))
        lower == FracSub(Q1, FracTimesOneAndAHalf(FracSub(Q3, Q1)))
        upper == FracAdd(Q1, FracTimesOneAndAHalf(FracSub(Q3, Q1)))
        regular(data) ==
            /\ FracLeq(lower, Frac(data[2], 1))
            /\ FracLeq(Frac(data[2], 1), upper)
    IN <<SelectSeq(data_tuples, regular), Q1, Q3>>

\* ------------------------------------------------------------------------
\* Aggregation keys
\*
\* The key f"{label}@{root_base}" with its directory tokens joined by os.sep
\* and its optional "@" + gt_type is the record of these parts; the parts
\* hold neither "@" nor os.sep, so the record and the string determine each
\* other.
\* ------------------------------------------------------------------------

NoType == <<>>

\* f"{label}@{root_base}"
PathKey(label, root_base) == [label |-> label, dirs |-> <<root_base>>, type |-> NoType]

\* path_key + '@' + gt_type
TypeKey(path_key, gt_type) == [path_key EXCEPT !.type = gt_type]

\* curr + os.sep + token
SubKey(curr, token) == [curr EXCEPT !.dirs = Append(@, token)]

LabelRank(label) ==
    CASE label = "BoW" -> 1
      [] label = "CA" -> 2
      [] label = "FM" -> 3
      [] label = "LA" -> 4
      [] label = "Pre" -> 5
      [] label = "Rec" -> 6
      [] OTHER -> 7

TypeRank(gt_type) ==
    IF StartsWith(gt_type, <<"a", "n">>) THEN 1
    ELSE IF StartsWith(gt_type, <<"a", "r">>) THEN 2
    ELSE 3

\* the key string as the ranks of its parts in string order: os.sep sorts
\* before "@", both before letters
KeyRanks(key) ==
    <<LabelRank(key.label), SegRank(key.dirs[1])>>
    \o [i \in 1..(2 * (Len(key.dirs) - 1)) |->
            IF i % 2 = 1 THEN 1 ELSE 20 + SegRank(key.dirs[1 + i \div 2])]
    \o (IF key.type = NoType THEN <<>> ELSE <<2, TypeRank(key.type)>>)

RECURSIVE LexLess(_, _)
LexLess(a, b) ==
    IF b = <<>> THEN FALSE
    ELSE IF a = <<>> THEN TRUE
    ELSE IF Head(a) = Head(b) THEN LexLess(Tail(a), Tail(b))
    ELSE Head(a) < Head(b)

\* eval_key of one result sorts before eval_key of the other
KeyLess(k1, k2) == LexLess(KeyRanks(k1), KeyRanks(k2))

\* ------------------------------------------------------------------------
\* Evaluator.aggregate
\* ------------------------------------------------------------------------

\* evaluation_map is the list of its items [key, values] in insertion order
HasKey(map, key) == \E i \in 1..Len(map) : map[i].key = key

\* if key not in map: map[key] = []; map[key].append(data)
MapAdd(map, key, data) ==
    IF HasKey(map, key)
    THEN [i \in 1..Len(map) |->
            IF map[i].key = key
            THEN [map[i] EXCEPT !.values = Append(@, data)]
            ELSE map[i]]
    ELSE Append(map, [key |-> key, values |-> <<data>>])

\* the values recorded under a key, none if the key is absent
MapGet(map, key) ==
    IF HasKey(map, key)
    THEN (CHOOSE item \in Range(map) : item.key = key).values
    ELSE <<>>

\* tuple.index
IndexOf(seq, x) == CHOOSE i \in 1..Len(seq) : seq[i] = x /\ \A j \in 1..(i - 1) : seq[j] # x

\* the loop "while tokens" that stores a value at every sub-level
RECURSIVE StoreSubLevels(_, _, _, _)
StoreSubLevels(map, curr, tokens, data) ==
    IF tokens = <<>> THEN map
    ELSE LET next == SubKey(curr, Head(tokens))
         IN StoreSubLevels(MapAdd(map, next, data), next, Tail(tokens), data)

\* the body of "for ee in self.evaluation_entries" for a metric the entry has
AggregateEntry(map, ee, metric, root_base, by_type) ==
    LET path_key == PathKey(metric.label, root_base)
        data == <<ee.path_c, metric.value, metric.n_ref>>
        ocr_parts == Dirname(ee.path_c)
    IN IF root_base \in Range(ocr_parts)
       THEN LET tokens == SubSeq(ocr_parts, IndexOf(ocr_parts, root_base), Len(ocr_parts))
                top == MapAdd(map, path_key, data)
                typed == IF by_type /\ ee.gt_type # <<>> /\ ee.gt_type # NOT_SET
                         THEN MapAdd(top, TypeKey(path_key, ee.gt_type), data)
                         ELSE top
            IN StoreSubLevels(typed, path_key, Tail(tokens), data)
       ELSE map

\* "for ee in self.evaluation_entries" for one metric index: an entry without
\* a metric at that index ends the call with an IndexError
RECURSIVE AggregateEntries(_, _, _, _, _, _)
AggregateEntries(st, heap, es, index, root_base, by_type) ==
    IF es = <<>> \/ st.raised # "none" THEN st
    ELSE LET ee == Head(es)
             ms == MetricsOf(heap, ee)
         IN IF index + 1 > Len(ms)
            THEN [st EXCEPT !.raised = "IndexError"]
            ELSE AggregateEntries(
                    [st EXCEPT !.map = AggregateEntry(st.map, ee, ms[index + 1],
                                                      root_base, by_type)],
                    heap, Tail(es), index, root_base, by_type)

\* "for _metrics_index in by_metrics"
RECURSIVE AggregateMetrics(_, _, _, _, _, _)
AggregateMetrics(st, heap, evs, by_metrics, root_base, by_type) ==
    IF by_metrics = <<>> \/ st.raised # "none" THEN st
    ELSE LET index == Head(by_metrics)
             rest == Tail(by_metrics)
         IN IF index > Len(MetricsOf(heap, evs[1]))
            THEN AggregateMetrics(st, heap, evs, rest, root_base, by_type)
            ELSE AggregateMetrics(
                    AggregateEntries(st, heap, evs, index, root_base, by_type),
                    heap, evs, rest, root_base, by_type)

\* _check_aggregate_preconditions without the test of the candidate root
check_only_evaluation_data(evs, candidate) ==
    IF evs = <<>> THEN "RuntimeError" ELSE "none"

\* _check_aggregate_preconditions: the error it raises, or "none"
_check_aggregate_preconditions(evs, candidate) ==
    IF evs = <<>> THEN "RuntimeError"
    ELSE IF ~candidate.is_dir THEN "RuntimeError"
    ELSE "none"

\* Path(self.domain_reference) of a reference that was never set (None)
NoReference == <<>>

\* aggregate: the map as the call leaves it and the error it ended with
aggregate(map, heap, evs, candidate, reference, by_type, by_metrics) ==
    IF _check_aggregate_preconditions(evs, candidate) # "none"
    THEN [map |-> map, raised |-> _check_aggregate_preconditions(evs, candidate)]
    ELSE IF reference = NoReference
    THEN [map |-> map, raised |-> "TypeError"]
    ELSE AggregateMetrics([map |-> map, raised |-> "none"], heap, evs,
                          by_metrics, reference[Len(reference)], by_type)

\* ------------------------------------------------------------------------
\* EvaluationResult and Evaluator.eval_map
\* ------------------------------------------------------------------------

\* cleared_result = None
NoResult == <<>>

\* EvaluationResult.__init__
EvaluationResult(eval_key, n_total, n_chars) ==
    [eval_key |-> eval_key, n_total |-> n_total, n_chars |-> n_chars,
     mean |-> Frac(0, 1), std |-> Frac(0, 1), median |-> Frac(0, 1),
     cleared_result |-> NoResult]

\* the result with outliers removed that eval_map nests into a result
ClearResult(k, data_tuples) ==
    LET regulars == strip_outliers_from(data_tuples)[1]
        stats == get_statistics(DataPoints(regulars))
    IN [EvaluationResult(k, Len(regulars), 0) EXCEPT
            !.mean = stats[1], !.std = stats[2], !.median = stats[3],
            !.n_chars = SumSeq([i \in 1..Len(regulars) |-> regulars[i][3]])]

\* the body of the loop of eval_map: the result of one key
ResultOf(k, data_tuples) ==
    LET data_points == DataPoints(data_tuples)
        n_chars == SumSeq([i \in 1..Len(data_tuples) |-> data_tuples[i][3]])
        initial == [EvaluationResult(k, Len(data_tuples), n_chars) EXCEPT
                        !.mean = Frac(data_points[1], 1),
                        !.median = Frac(data_points[1], 1)]
        stats == get_statistics(data_points)
    IN IF Len(data_points) > 1
       THEN [initial EXCEPT
                !.mean = stats[1], !.median = stats[3], !.std = stats[2],
                !.cleared_result =
                    IF StdAtLeastOne(stats[2])
                    THEN <<ClearResult(k, data_tuples)>>
                    ELSE NoResult]
       ELSE initial

\* sorted(self.evaluation_results, key=lambda e: e.eval_key): a stable sort
RECURSIVE InsertByKey(_, _)
InsertByKey(sorted, r) ==
    IF sorted = <<>> THEN <<r>>
    ELSE IF KeyLess(r.eval_key, Head(sorted).eval_key)
    THEN <<r>> \o sorted
    ELSE <<Head(sorted)>> \o InsertByKey(Tail(sorted), r)

RECURSIVE SortByKey(_)
SortByKey(rs) ==
    IF rs = <<>> THEN <<>>
    ELSE InsertByKey(SortByKey(SubSeq(rs, 1, Len(rs) - 1)), rs[Len(rs)])

\* eval_map: the results after the loop over the items of the map
RECURSIVE eval_map(_, _)
eval_map(results, items) ==
    IF items = <<>> THEN results
    ELSE eval_map(
            SortByKey(Append(results, ResultOf(Head(items).key, Head(items).values))),
            Tail(items))

\* ------------------------------------------------------------------------
\* The Evaluator after eval_all: aggregate and eval_map
\* ------------------------------------------------------------------------

\* the arguments aggregate is called with; [0,1,2,3] is the default
ByMetrics == {<<0, 1, 2, 3>>, <<0>>, <<0, 7>>, <<8, 1>>}

\* n candidates eval_all recorded: files in path order, each evaluated
\* against a groundtruth that holds text
EvaluatedListsOfLen(n) ==
    {es \in EntryListsOfLen(n) :
        /\ \A i \in 1..Len(es) : Evaluable(es[i])
        /\ \A i \in 1..(Len(es) - 1) : PathLess(es[i].path_c, es[i + 1].path_c)}

\* evaluation_entries and the metric objects after eval_all(es, sequential)
AfterEvalAll(es, seq) ==
    LET fresh == [r \in {SelfMetrics} |-> [i \in 1..NumMetrics |-> NewMetric(i)]]
        st == SeqLoop([heap |-> fresh, evs |-> <<>>], es)
        tasks == [k \in 1..Len(es) |-> _wrap_eval_entry(fresh, <<>>, es[k])]
    IN IF seq
       THEN [heap |-> st.heap, evs |-> SortByPath(st.evs)]
       ELSE [heap |-> [r \in {SelfMetrics} \cup (1..Len(es)) |->
                          IF r = SelfMetrics THEN fresh[SelfMetrics]
                          ELSE tasks[r].metrics],
             evs |-> SortByPath(NotNones(tasks, 1))]

InitAgg ==
    /\ pc = "done"
    /\ pool = <<>>
    /\ timed_out = FALSE
    /\ \E n \in 0..MaxEntries : \E es \in EvaluatedListsOfLen(n), seq \in BOOLEAN :
        /\ entries = es
        /\ sequential = seq
        /\ evaluation_entries = AfterEvalAll(es, seq).evs
        /\ metrics_heap = AfterEvalAll(es, seq).heap
    /\ domain_candidate \in {[parts |-> <<"/", "cand">>, is_dir |-> TRUE],
                             [parts |-> <<"/", "cand">>, is_dir |-> FALSE]}
    /\ domain_reference \in {NoReference, <<"/", "gt">>, <<"/", "gt", "cand">>}
    /\ evaluation_map = <<>>
    /\ evaluation_results = <<>>
    /\ calls = 0
    /\ last_call = NoCall
    /\ stripped = <<>>
    /\ raised = "none"
    /\ NoDocument
    /\ NoMatching

\* aggregate(by_type, by_metrics)
Aggregate ==
    /\ pc = "done"
    /\ calls < MaxCalls
    /\ \E by_type \in BOOLEAN, by_metrics \in ByMetrics :
        LET r == aggregate(evaluation_map, metrics_heap, evaluation_entries,
                           domain_candidate, domain_reference, by_type, by_metrics)
        IN /\ evaluation_map' = r.map
           /\ raised' = r.raised
           /\ last_call' = [op |-> "aggregate", by_type |-> by_type,
                            by_metrics |-> by_metrics]
    /\ calls' = calls + 1
    /\ UNCHANGED <<evalVars, domain_candidate, domain_reference,
                   evaluation_results, stripped, docVars,
                   matchVars>>

\* eval_map()
EvalMap ==
    /\ pc = "done"
    /\ calls < MaxCalls
    /\ evaluation_results' = eval_map(evaluation_results, evaluation_map)
    /\ raised' = "none"
    /\ last_call' = [op |-> "eval_map", by_type |-> FALSE, by_metrics |-> <<>>]
    /\ calls' = calls + 1
    /\ UNCHANGED <<evalVars, domain_candidate, domain_reference, evaluation_map,
                   stripped, docVars,
                   matchVars>>

NextAgg == Aggregate \/ EvalMap

SpecAgg == InitAgg /\ [][NextAgg]_vars

\* ------------------------------------------------------------------------
\* Claims about aggregate
\* ------------------------------------------------------------------------

\* the directories of a candidate file below the candidate root: <<a, b, c>>
\* for a file in root/a/b/c
BelowRoot(path_c, root_parts) ==
    SubSeq(Dirname(path_c), Len(root_parts) + 1, Len(Dirname(path_c)))

InCandidateRoot(path_c, root_parts) ==
    /\ Len(Dirname(path_c)) >= Len(root_parts)
    /\ SubSeq(Dirname(path_c), 1, Len(root_parts)) = root_parts

\* C4: after aggregate(), for every requested metric index and every
\* evaluated entry in directory root/a/b/c, root the name of the candidate
\* root folder, the tuple (path, value, n_ref) of the entry's metric is in the
\* value list of each of metric@root, metric@root/a, ..., metric@root/a/b/c.
C4_AggregationLattice ==
    (last_call.op = "aggregate" /\ raised = "none") =>
        \A n \in 1..Len(last_call.by_metrics), k \in 1..Len(evaluation_entries) :
            LET index == last_call.by_metrics[n]
                ee == evaluation_entries[k]
                ms == MetricsOf(metrics_heap, ee)
                root_parts == domain_candidate.parts
                root == root_parts[Len(root_parts)]
                below == BelowRoot(ee.path_c, root_parts)
            IN (index + 1 <= Len(ms) /\ InCandidateRoot(ee.path_c, root_parts)) =>
                \A depth \in 0..Len(below) :
                    <<ee.path_c, ms[index + 1].value, ms[index + 1].n_ref>>
                        \in Range(MapGet(evaluation_map,
                                [label |-> ms[index + 1].label,
                                 dirs |-> <<root>> \o SubSeq(below, 1, depth),
                                 type |-> NoType]))

\* the preconditions of aggregate fail: no evaluated entry, or a candidate
\* root that is no directory
PreconditionsFail ==
    evaluation_entries = <<>> \/ ~domain_candidate.is_dir

\* C5: an aggregate() called with no evaluated entries, or with a candidate
\* root that is no existing directory, fails with a fatal error and leaves
\* evaluation_map and evaluation_results as they were.
C5_NoPartialAggregate ==
    [][(last_call'.op = "aggregate" /\ calls' = calls + 1 /\ PreconditionsFail) =>
        /\ raised' = "RuntimeError"
        /\ evaluation_map' = evaluation_map
        /\ evaluation_results' = evaluation_results]_vars

\* C5, reached: aggregate failed on evaluated entries whose candidate root is
\* no directory, and nothing was aggregated.
C5_Witness ==
    /\ last_call.op = "aggregate"
    /\ raised = "RuntimeError"
    /\ evaluation_entries # <<>>
    /\ ~domain_candidate.is_dir
    /\ domain_reference = <<"/", "gt", "cand">>
    /\ evaluation_map = <<>>

\* ------------------------------------------------------------------------
\* The statistics of one key: strip_outliers_from and eval_map on the value
\* list aggregate collected under the key CA@cand
\* ------------------------------------------------------------------------

FileName(i) ==
    CASE i = 1 -> "f1.xml"
      [] i = 2 -> "f2.xml"
      [] i = 3 -> "f3.xml"
      [] i = 4 -> "f4.xml"
      [] i = 5 -> "f5.xml"
      [] OTHER -> "f6.xml"

\* the value lists of n points: (path, value, n_ref) of the i-th candidate,
\* with a reference count of i - 1
ValueListsOfLen(n) ==
    {[i \in 1..n |-> <<<<"/", "cand", FileName(i)>>, vs[i], i - 1>>] :
        vs \in [1..n -> 0..MaxValue]}

InitStats ==
    /\ pc = "done"
    /\ entries = <<>>
    /\ sequential = FALSE
    /\ evaluation_entries = <<>>
    /\ metrics_heap = [r \in {SelfMetrics} |-> [i \in 1..NumMetrics |-> NewMetric(i)]]
    /\ pool = <<>>
    /\ timed_out = FALSE
    /\ domain_candidate = [parts |-> <<"/", "cand">>, is_dir |-> TRUE]
    /\ domain_reference = <<"/", "gt", "cand">>
    /\ \E n \in 1..MaxPoints : \E data_tuples \in ValueListsOfLen(n) :
        evaluation_map = <<[key |-> PathKey("CA", "cand"), values |-> data_tuples]>>
    /\ evaluation_results = <<>>
    /\ calls = 0
    /\ last_call = NoCall
    /\ stripped = <<>>
    /\ raised = "none"
    /\ NoDocument
    /\ NoMatching

\* strip_outliers_from(data_tuples) on the value list of the key
StripOutliers ==
    /\ stripped = <<>>
    /\ stripped' = strip_outliers_from(evaluation_map[1].values)
    /\ UNCHANGED <<evalVars, domain_candidate, domain_reference, evaluation_map,
                   evaluation_results, calls, last_call, raised, docVars,
                   matchVars>>

NextStats == StripOutliers \/ EvalMap

SpecStats == InitStats /\ [][NextStats]_vars

\* ------------------------------------------------------------------------
\* Claims about the statistics
\* ------------------------------------------------------------------------

Count(seq, x) == Cardinality({i \in 1..Len(seq) : seq[i] = x})

\* the value list recorded under the key of a result
ValuesOf(result) == MapGet(evaluation_map, result.eval_key)

\* C6: the tuples strip_outliers_from keeps are a sub-multiset of the tuples
\* it was given, and a cleared result's count and summed reference count do
\* not exceed those of the result it is nested in.
C6_StrippingConservative ==
    /\ stripped # <<>> =>
        \A t \in Range(stripped[1]) \cup Range(evaluation_map[1].values) :
            Count(stripped[1], t) <= Count(evaluation_map[1].values, t)
    /\ \A n \in 1..Len(evaluation_results) :
        LET result == evaluation_results[n] IN
        result.cleared_result # NoResult =>
            /\ result.cleared_result[1].n_total <= result.n_total
            /\ result.cleared_result[1].n_chars <= result.n_chars

\* C6, reached: stripping dropped some but not all tuples of a value list,
\* and the cleared result of that list is attached.
C6_Witness ==
    /\ stripped # <<>>
    /\ Len(stripped[1]) > 0
    /\ Len(stripped[1]) < Len(evaluation_map[1].values)
    /\ Len(evaluation_results) = 1
    /\ evaluation_results[1].cleared_result # NoResult
    /\ evaluation_results[1].cleared_result[1].n_total = Len(stripped[1])

\* the population standard deviation of the values is at least 1.0: the sum
\* of the squared distances to the mean is at least N
PopulationStdAtLeastOne(data_tuples) ==
    LET n == Len(data_tuples)
        sum == SumSeq(DataPoints(data_tuples))
    IN SumSeq([i \in 1..n |-> (n * data_tuples[i][2] - sum) * (n * data_tuples[i][2] - sum)])
         >= n * n * n

\* C7: a result carries a cleared result if and only if its key has more
\* than one data point and the population standard deviation of its values
\* is at least 1.0.
C7_ClearedIffSpread ==
    \A n \in 1..Len(evaluation_results) :
        LET result == evaluation_results[n] IN
        (result.cleared_result # NoResult)
            <=> (Len(ValuesOf(result)) > 1 /\ PopulationStdAtLeastOne(ValuesOf(result)))

\* C7, reached: a key with several data points whose deviation is below 1.0
\* has no cleared result.
C7_Witness ==
    /\ Len(evaluation_results) = 1
    /\ Len(ValuesOf(evaluation_results[1])) = 3
    /\ ~PopulationStdAtLeastOne(ValuesOf(evaluation_results[1]))
    /\ DataPoints(ValuesOf(evaluation_results[1])) = <<0, 2, 1>>
    /\ evaluation_results[1].cleared_result = NoResult

\* ------------------------------------------------------------------------
\* XML documents
\*
\* A document is the list of its elements in document order: element 1 is
\* the Page, "block" is a TextBlock (ALTO) or TextRegion (PAGE), "line" a
\* TextLine, "word" a String (ALTO) or Word (PAGE).  An element carries its
\* text (CONTENT in ALTO, the Unicode text in PAGE), a sequence of
\* characters, and the corners p1, p2 of its box.
\* ------------------------------------------------------------------------

\* most elements below the Page of the documents the extraction reads
MaxElements == 5

\* largest pixel coordinate of the boxes and frames
MaxCoord == 2

Max(S) == CHOOSE x \in S : \A y \in S : y <= x

\* the last element with the given tag before element k, 0 if there is none
Latest(tag, k, name) ==
    LET before == {j \in 2..(k - 1) : tag[j] = name}
    IN IF before = {} THEN 0 ELSE Max(before)

\* a block lies in the Page, a line in a block, a word in a line
WellFormed(tag) ==
    /\ tag[1] = "Page"
    /\ \A k \in 2..Len(tag) :
        /\ tag[k] \in {"block", "line", "word"}
        /\ tag[k] = "line" => Latest(tag, k, "block") > 0
        /\ tag[k] = "word" => Latest(tag, k, "line") > Latest(tag, k, "block")

\* the element that encloses element k; the Page has none
NoParent == 0

ParentOf(tag, k) ==
    IF k = 1 THEN NoParent
    ELSE IF tag[k] = "block" THEN 1
    ELSE IF tag[k] = "line" THEN Latest(tag, k, "block")
    ELSE Latest(tag, k, "line")

\* xml.dom.minidom.parse: the elements with their parents
Parse(format, tag, content, p1, p2) ==
    [format |-> format, tag |-> tag,
     parent |-> [k \in 1..Len(tag) |-> ParentOf(tag, k)],
     content |-> content, p1 |-> p1, p2 |-> p2]

\* getElementsByTagName below an element whose children carry one tag: the
\* children in document order
Children(doc, n) ==
    SelectSeq([k \in 1..Len(doc.tag) |-> k], LAMBDA k : doc.parent[k] = n)

\* str.strip
RECURSIVE LStrip(_)
LStrip(s) == IF s # <<>> /\ Head(s) = " " THEN LStrip(Tail(s)) ELSE s

RECURSIVE RStrip(_)
RStrip(s) ==
    IF s # <<>> /\ s[Len(s)] = " " THEN RStrip(SubSeq(s, 1, Len(s) - 1)) ELSE s

Strip(s) == RStrip(LStrip(s))

\* the texts of the elements: none, blanks only, a letter
Contents == {<<>>, <<" ">>, <<"a">>}

\* every block holds a line, and every line of an ALTO document a String
Filled(format, tag) ==
    \A k \in 2..Len(tag) :
        /\ tag[k] = "block" => \E j \in (k + 1)..Len(tag) : ParentOf(tag, j) = k
        /\ (tag[k] = "line" /\ format = "alto") =>
                \E j \in (k + 1)..Len(tag) : ParentOf(tag, j) = k

\* the elements that carry text: the words, and the lines of a PAGE document
TextElements(format, tag) ==
    {k \in 1..Len(tag) : tag[k] = "word" \/ (tag[k] = "line" /\ format = "page")}

\* the well-formed lists of n elements of a format
ElementLists(format, n) ==
    {tag \in [1..n -> {"Page", "block", "line", "word"}] :
        WellFormed(tag) /\ Filled(format, tag)}

\* the document with the given elements and texts; its boxes play no part
Document(format, tag, text) ==
    Parse(format, tag,
          [k \in 1..Len(tag) |-> IF k \in TextElements(format, tag) THEN text[k] ELSE <<>>],
          [k \in 1..Len(tag) |-> <<0, 0>>], [k \in 1..Len(tag) |-> <<0, 0>>])

\* ------------------------------------------------------------------------
\* OCRData: _extract_alto_data and _extract_page_data
\* ------------------------------------------------------------------------

\* a point that was never set
NoPoint == <<>>

\* OCRWord(word_id, element)
OCRWord(doc, k) ==
    [id |-> k, text |-> doc.content[k], p1 |-> doc.p1[k], p2 |-> doc.p2[k]]

\* OCRWordLine(line_id): a line without an element has no box and no words
OCRWordLine(the_id) ==
    [id |-> the_id, is_str |-> FALSE, words |-> <<>>, p1 |-> NoPoint, p2 |-> NoPoint]

\* OCRWordLine(line_id, text_line) of ALTO: the box of the element
OCRWordLineOf(doc, k) ==
    [OCRWordLine(k) EXCEPT !.p1 = doc.p1[k], !.p2 = doc.p2[k]]

\* OCRWordLine(line_id, text_line) of a PAGE line without Word elements: words
\* is the text of the line, a str
OCRTextLine(doc, k) ==
    [OCRWordLineOf(doc, k) EXCEPT !.is_str = TRUE, !.words = doc.content[k]]

\* OCRWordLine.contains_text: the line holds transcribed text
contains_text(ocr_line) ==
    IF ocr_line.is_str THEN Strip(ocr_line.words) # <<>>
    ELSE \E w \in 1..Len(ocr_line.words) : Strip(ocr_line.words[w].text) # <<>>

\* OCRRegion(block_id, element) after add_line for every line of lines
OCRRegion(block_id, lines) == [id |-> block_id, lines |-> lines]

\* the elements with a tag, in document order
ElementsByTagName(doc, name) ==
    SelectSeq([k \in 1..Len(doc.tag) |-> k], LAMBDA k : doc.tag[k] = name)

\* _extract_alto_data: "for text_string in text_strings", the line it fills
AltoLine(doc, text_line) ==
    LET text_strings == Children(doc, text_line)
        kept == SelectSeq(text_strings, LAMBDA k : Strip(doc.content[k]) # <<>>)
    IN [OCRWordLineOf(doc, text_line) EXCEPT
            !.words = [w \in 1..Len(kept) |-> OCRWord(doc, kept[w])]]

\* _extract_alto_data: self.blocks after the loop over the text blocks
_extract_alto_data(doc) ==
    LET text_blocks == ElementsByTagName(doc, "block")
    IN [b \in 1..Len(text_blocks) |->
            LET cured_lines == Children(doc, text_blocks[b])
                ocr_lines == [l \in 1..Len(cured_lines) |-> AltoLine(doc, cured_lines[l])]
            IN OCRRegion(text_blocks[b],
                         SelectSeq(ocr_lines, LAMBDA ocr_line : Len(ocr_line.words) > 0))]

\* _extract_page_data: the line built from a TextLine
PageLine(doc, text_line) ==
    LET word_tokens == Children(doc, text_line)
    IN IF Len(word_tokens) > 0
       THEN [OCRWordLine(text_line) EXCEPT
                !.words = [w \in 1..Len(word_tokens) |-> OCRWord(doc, word_tokens[w])]]
       ELSE OCRTextLine(doc, text_line)

\* _extract_page_data: self.blocks after the loop over the regions
_extract_page_data(doc) ==
    LET page_blocks == ElementsByTagName(doc, "block")
    IN [b \in 1..Len(page_blocks) |->
            LET cured_lines == Children(doc, page_blocks[b])
                ocr_lines == [l \in 1..Len(cured_lines) |-> PageLine(doc, cured_lines[l])]
            IN OCRRegion(page_blocks[b],
                         SelectSeq(ocr_lines, LAMBDA ocr_line : contains_text(ocr_line)))]

\* _read_data: the extraction the root element selects
_read_data(doc) ==
    IF doc.format = "alto" THEN _extract_alto_data(doc) ELSE _extract_page_data(doc)

\* get_lines
RECURSIVE Flatten(_)
Flatten(seqs) == IF seqs = <<>> THEN <<>> ELSE Head(seqs) \o Flatten(Tail(seqs))

get_lines(ocr_blocks) == Flatten([b \in 1..Len(ocr_blocks) |-> ocr_blocks[b].lines])

\* an Evaluator that takes no part: the fields of a new Evaluator
NoEvaluator ==
    /\ entries = <<>>
    /\ sequential = FALSE
    /\ evaluation_entries = <<>>
    /\ metrics_heap = [r \in {SelfMetrics} |-> [i \in 1..NumMetrics |-> NewMetric(i)]]
    /\ pool = <<>>
    /\ timed_out = FALSE
    /\ domain_candidate = [parts |-> <<"/", "cand">>, is_dir |-> TRUE]
    /\ domain_reference = <<>>
    /\ evaluation_map = <<>>
    /\ evaluation_results = <<>>
    /\ calls = 0
    /\ last_call = NoCall
    /\ stripped = <<>>

\* no frame was applied
NoFrame == <<>>

\* a file that was parsed and not yet read into OCRData
InitExtract ==
    /\ NoEvaluator
    /\ NoMatching
    /\ pc = "parsed"
    /\ \E format \in {"alto", "page"}, n \in 1..(MaxElements + 1) :
        \E tag \in ElementLists(format, n) :
            \E text \in [TextElements(format, tag) -> Contents] :
                xml_doc = Document(format, tag, text)
    /\ blocks = <<>>
    /\ frame = NoFrame
    /\ filter_lines = <<>>
    /\ top_piece = <<>>
    /\ raised = "none"

\* OCRData(path_in): _read_data fills self.blocks
ReadData ==
    /\ pc = "parsed"
    /\ pc' = "ocr_data"
    /\ blocks' = _read_data(xml_doc)
    /\ UNCHANGED <<entries, sequential, evaluation_entries, metrics_heap, pool,
                   timed_out, aggVars, raised, frame, filter_lines, top_piece,
                   xml_doc, matchVars>>

NextExtract == ReadData

SpecExtract == InitExtract /\ [][NextExtract]_vars

\* ------------------------------------------------------------------------
\* Claims about the extraction
\* ------------------------------------------------------------------------

\* C10: the blocks OCRData built from an ALTO or PAGE document hold no Region
\* without a line, no line without transcribed text, and no word whose text
\* is empty or blank.
C10_NoEmptyNode ==
    pc = "ocr_data" =>
        \A b \in 1..Len(blocks) :
            /\ Len(blocks[b].lines) > 0
            /\ \A l \in 1..Len(blocks[b].lines) :
                LET ocr_line == blocks[b].lines[l] IN
                IF ocr_line.is_str THEN Strip(ocr_line.words) # <<>>
                ELSE /\ Len(ocr_line.words) > 0
                     /\ \A w \in 1..Len(ocr_line.words) :
                            Strip(ocr_line.words[w].text) # <<>>

\* ------------------------------------------------------------------------
\* Geometry: BoundingBox, OCRData.filter_all, filter_word_pieces
\* ------------------------------------------------------------------------

\* int(a / 2): the quotient truncated towards zero
HalfOf(a) == IF a >= 0 THEN a \div 2 ELSE -((-a) \div 2)

\* BoundingBox(p1, p2)
BoundingBox(p1, p2) == [p1 |-> p1, p2 |-> p2]

\* BoundingBox.contains: the other box lies in this one, borders included
contains(box, other) ==
    /\ box.p1[1] <= other.p1[1]
    /\ box.p1[2] <= other.p1[2]
    /\ other.p2[1] <= box.p2[1]
    /\ other.p2[2] <= box.p2[2]

\* centroid that leaves out the offset of the box
centroid_of_extent(bbox) ==
    <<HalfOf(bbox.p2[1] - bbox.p1[1]), HalfOf(bbox.p2[2] - bbox.p1[2])>>

\* centroid, the function local to filter_all
centroid(bbox) ==
    <<bbox.p1[1] + HalfOf(bbox.p2[1] - bbox.p1[1]),
      bbox.p1[2] + HalfOf(bbox.p2[2] - bbox.p1[2])>>

\* "for line in all_lines": the lines filter_all collects
RECURSIVE FilterLines(_, _)
FilterLines(all_lines, filter_box) ==
    IF all_lines = <<>> THEN <<>>
    ELSE LET line == Head(all_lines)
             rest == FilterLines(Tail(all_lines), filter_box)
             inside(b) == contains(filter_box, BoundingBox(centroid(b), centroid(b)))
             new_line == [OCRWordLine(line.id) EXCEPT
                            !.words = SelectSeq(line.words, inside)]
         IN IF ~line.is_str
            THEN IF new_line.words # <<>> THEN <<new_line>> \o rest ELSE rest
            ELSE IF inside(line) THEN <<line>> \o rest ELSE rest

\* OCRData.filter_all
filter_all(ocr_blocks, coords_start, coords_end) ==
    FilterLines(get_lines(ocr_blocks), BoundingBox(coords_start, coords_end))

\* to_pieces: the Piece tree of a document; piece 1 is the top piece, the
\* pieces of a piece are the numbers of its children
to_pieces(doc) ==
    [parent |-> doc.parent,
     type |-> [k \in 1..Len(doc.tag) |->
                  CASE doc.tag[k] = "Page" -> "PAGE"
                    [] doc.tag[k] = "block" -> "REGION"
                    [] doc.tag[k] = "line" -> "LINE"
                    [] OTHER -> "WORD"],
     pieces |-> [k \in 1..Len(doc.tag) |-> Children(doc, k)],
     p1 |-> doc.p1, p2 |-> doc.p2]

\* Piece.__contains__, "_word in frame": the centre of the word lies in the
\* frame
PieceIn(tree, word, frame_piece) ==
    LET c == centroid(BoundingBox(tree.p1[word], tree.p2[word]))
    IN contains(frame_piece, BoundingBox(c, c))

\* filter_word_pieces, "while _tmp_stack": _total_stack after the loop
RECURSIVE StackAll(_, _, _)
StackAll(tree, _tmp_stack, _total_stack) ==
    IF _tmp_stack = <<>> THEN _total_stack
    ELSE LET _current == _tmp_stack[Len(_tmp_stack)]
             popped == SubSeq(_tmp_stack, 1, Len(_tmp_stack) - 1)
         IN StackAll(tree, popped \o tree.pieces[_current],
                     _total_stack \o tree.pieces[_current])

\* list.remove: the list without the first occurrence of x
RECURSIVE Remove(_, _)
Remove(seq, x) ==
    IF seq = <<>> THEN <<>>
    ELSE IF Head(seq) = x THEN Tail(seq)
    ELSE <<Head(seq)>> \o Remove(Tail(seq), x)

\* _uplete on the state [tree, raised]: the top piece has no parent (None),
\* and reading None.pieces raises AttributeError
RECURSIVE _uplete(_, _)
_uplete(st, curr) ==
    IF Len(st.tree.pieces[curr]) = 0
    THEN LET _pa == st.tree.parent[curr]
         IN IF _pa = NoParent THEN [st EXCEPT !.raised = "AttributeError"]
            ELSE IF curr \notin Range(st.tree.pieces[_pa])
            THEN [st EXCEPT !.raised = "ValueError"]
            ELSE _uplete([st EXCEPT !.tree.pieces[_pa] = Remove(@, curr)], _pa)
    ELSE st

\* filter_word_pieces, "for _word in _words"
RECURSIVE CheckWords(_, _, _)
CheckWords(st, frame_piece, _words) ==
    IF _words = <<>> \/ st.raised # "none" THEN st
    ELSE CheckWords(IF ~PieceIn(st.tree, Head(_words), frame_piece)
                    THEN _uplete(st, Head(_words))
                    ELSE st,
                    frame_piece, Tail(_words))

\* filter_word_pieces(frame, current): the tree as the call leaves it and the
\* error it ended with
filter_word_pieces(frame_piece, current) ==
    LET _total_stack == StackAll(current, <<1>>, <<1>>)
        _words == SelectSeq(_total_stack, LAMBDA _p : current.type[_p] = "WORD")
    IN CheckWords([tree |-> current, raised |-> "none"], frame_piece, _words)

\* ------------------------------------------------------------------------
\* A document, read into OCRData or into a Piece tree, and a filter frame
\* ------------------------------------------------------------------------

\* the extents along one axis
Intervals == {<<a, b>> \in (0..MaxCoord) \X (0..MaxCoord) : a <= b}

\* the frames: the boxes of the page
Frames ==
    {BoundingBox(<<x[1], y[1]>>, <<x[2], y[2]>>) : x \in Intervals, y \in Intervals}

\* the elements without children: the words, and the lines without words
Leaves(tag) ==
    {k \in 2..Len(tag) : \A j \in 1..Len(tag) : ParentOf(tag, j) # k}

\* the documents of a shape: every leaf holds text and has an extent of its
\* own along x; every element spans the height of the page
Placed(format, tag) ==
    {Parse(format, tag,
           [k \in 1..Len(tag) |-> IF k \in Leaves(tag) THEN <<"a">> ELSE <<>>],
           [k \in 1..Len(tag) |-> <<IF k \in Leaves(tag) THEN x[k][1] ELSE 0, 0>>],
           [k \in 1..Len(tag) |->
                <<IF k \in Leaves(tag) THEN x[k][2] ELSE MaxCoord, MaxCoord>>]) :
        x \in [Leaves(tag) -> Intervals]}

\* documents with words: one word; two words of a line, of two lines, of two
\* blocks
WordDocuments ==
    UNION {Placed("alto", tag) :
            tag \in {<<"Page", "block", "line", "word">>,
                     <<"Page", "block", "line", "word", "word">>,
                     <<"Page", "block", "line", "word", "line", "word">>,
                     <<"Page", "block", "line", "word", "block", "line", "word">>}}

\* PAGE documents with lines that hold their text themselves
LineDocuments ==
    UNION {Placed("page", tag) :
            tag \in {<<"Page", "block", "line">>,
                     <<"Page", "block", "line", "line">>,
                     <<"Page", "block", "line", "word", "line">>}}

\* a document read by OCRData (ocr_to_text) or by to_pieces (review2)
InitFilter ==
    /\ NoEvaluator
    /\ NoMatching
    /\ frame = NoFrame
    /\ filter_lines = <<>>
    /\ raised = "none"
    /\ \/ /\ pc = "ocr_data"
          /\ xml_doc \in WordDocuments \cup LineDocuments
          /\ blocks = _read_data(xml_doc)
          /\ top_piece = <<>>
       \/ /\ pc = "pieces"
          /\ xml_doc \in WordDocuments
          /\ blocks = <<>>
          /\ top_piece = to_pieces(xml_doc)

\* ocr_data.filter_all(coords_start, coords_end), once or again with the
\* frame of the call before
FilterAll(coords) ==
    /\ pc = "ocr_data"
    /\ frame = NoFrame \/ frame = coords
    /\ frame' = coords
    /\ filter_lines' = filter_all(blocks, coords.p1, coords.p2)
    /\ UNCHANGED <<evalVars, aggVars, raised, blocks, top_piece, xml_doc,
                   matchVars>>

\* filter_word_pieces(frame_piece, top_piece), once or again with the frame
\* of the call before
FilterWordPieces(frame_piece) ==
    /\ pc = "pieces"
    /\ frame = NoFrame \/ frame = frame_piece
    /\ frame' = frame_piece
    /\ top_piece' = filter_word_pieces(frame_piece, top_piece).tree
    /\ raised' = filter_word_pieces(frame_piece, top_piece).raised
    /\ UNCHANGED <<evalVars, aggVars, blocks, filter_lines, xml_doc,
                   matchVars>>

NextFilter ==
    \/ \E coords \in Frames : FilterAll(coords)
    \/ \E frame_piece \in Frames : FilterWordPieces(frame_piece)

SpecFilter == InitFilter /\ [][NextFilter]_vars

\* ------------------------------------------------------------------------
\* Claims about the geometry filters
\* ------------------------------------------------------------------------

\* the pieces below the top piece that the tree still holds
RECURSIVE Below(_, _)
Below(tree, piece) ==
    UNION {{k} \cup Below(tree, k) : k \in Range(tree.pieces[piece])}

\* C8: after filter_word_pieces no error was raised and no Region or Line of
\* the tree is without pieces; after filter_all no line without words is
\* among the lines returned.
C8_PruningStopsAtRoot ==
    /\ (pc = "pieces" /\ frame # NoFrame) =>
        /\ raised = "none"
        /\ \A k \in Below(top_piece, 1) :
            top_piece.type[k] \in {"REGION", "LINE"} => top_piece.pieces[k] # <<>>
    /\ (pc = "ocr_data" /\ frame # NoFrame) =>
        \A l \in 1..Len(filter_lines) :
            filter_lines[l].is_str \/ filter_lines[l].words # <<>>

\* the centre of the box of an element lies in the frame, borders included:
\* the centre is the pixel in the middle of the box, the one nearer to p1 when
\* two pixels are in the middle
CentreInFrame(doc, k, box) ==
    \E cx \in 0..MaxCoord, cy \in 0..MaxCoord :
        /\ cx - doc.p1[k][1] <= doc.p2[k][1] - cx
        /\ doc.p2[k][1] - cx <= cx - doc.p1[k][1] + 1
        /\ cy - doc.p1[k][2] <= doc.p2[k][2] - cy
        /\ doc.p2[k][2] - cy <= cy - doc.p1[k][2] + 1
        /\ box.p1[1] <= cx /\ cx <= box.p2[1]
        /\ box.p1[2] <= cy /\ cy <= box.p2[2]

\* the words and the lines that hold their text themselves, of a list of lines
LeavesOfLines(lines) ==
    UNION {IF lines[l].is_str THEN {lines[l].id}
           ELSE {lines[l].words[w].id : w \in 1..Len(lines[l].words)} :
           l \in 1..Len(lines)}

\* C9: the lines filter_all returned hold exactly the words and text lines of
\* the document whose centre lies in the frame, and filtering these lines, or
\* the document, again with the frame returns the same lines; the tree
\* filter_word_pieces leaves holds exactly the words of the document whose
\* centre lies in the frame, and a second call with the frame leaves the same
\* tree.
C9_FilterIdempotent ==
    /\ (pc = "ocr_data" /\ frame # NoFrame) =>
        /\ LeavesOfLines(filter_lines)
             = {k \in Leaves(xml_doc.tag) : CentreInFrame(xml_doc, k, frame)}
        /\ FilterLines(filter_lines, frame) = filter_lines
        /\ filter_all(blocks, frame.p1, frame.p2) = filter_lines
    /\ (pc = "pieces" /\ frame # NoFrame) =>
        /\ {k \in Below(top_piece, 1) : top_piece.type[k] = "WORD"}
             = {k \in Leaves(xml_doc.tag) : CentreInFrame(xml_doc, k, frame)}
        /\ filter_word_pieces(frame, top_piece).tree = top_piece

\* C9, reached: of two words of a line the first lies outside the frame and
\* was removed, the second has its centre on the border of the frame and
\* stays, and the line and the region stay with it.
C9_Witness ==
    /\ pc = "pieces"
    /\ xml_doc.tag = <<"Page", "block", "line", "word", "word">>
    /\ xml_doc.p1[4][1] = 0 /\ xml_doc.p2[4][1] = 1
    /\ xml_doc.p1[5][1] = 1 /\ xml_doc.p2[5][1] = 2
    /\ frame = BoundingBox(<<1, 1>>, <<2, 1>>)
    /\ top_piece.pieces[3] = <<5>>
    /\ top_piece.pieces[2] = <<3>>
    /\ raised = "none"

\* ------------------------------------------------------------------------
\* Matching: gather_candidates, find_groundtruth, match_candidate
\*
\* A name is a sequence of characters.  A path is the sequence of the names
\* between its separators, what path.split(os.sep) returns: "/c/1.xml" is
\* <<"", "c", "1.xml">>, "a/1.xml" is <<"a", "1.xml">> and "" is <<"">>.
\* ------------------------------------------------------------------------

\* deepest directory of a candidate below the candidate root
MaxDepth == 2

EmptyName == <<>>

\* str.endswith
EndsWith(s, suffix) ==
    /\ Len(suffix) <= Len(s)
    /\ SubSeq(s, Len(s) - Len(suffix) + 1, Len(s)) = suffix

\* os.path.splitext(name)[0]: the name up to its last dot; dots the name
\* begins with are no extension
SplitextRoot(name) ==
    LET dots == {i \in 1..Len(name) :
                    name[i] = "." /\ \E j \in 1..(i - 1) : name[j] # "."}
    IN IF dots = {} THEN name ELSE SubSeq(name, 1, Max(dots) - 1)

\* os.path.basename
Basename(path) == path[Len(path)]

\* os.path.dirname of a path without doubled or trailing separators
DirnameOf(path) ==
    IF Len(path) = 1 THEN <<EmptyName>>
    ELSE IF Len(path) = 2 /\ path[1] = EmptyName THEN <<EmptyName, EmptyName>>
    ELSE SubSeq(path, 1, Len(path) - 1)

\* os.path.join(path, name) for a relative, non-empty second part
Join(path, rel) == path \o rel

\* path_string == segment, for a segment that holds no separator
SameString(path, segment) == Len(path) = 1 /\ path[1] = segment

\* os.path.exists, os.path.isdir
Exists(fs, path) == \E f \in fs : f.path = path

IsDir(fs, path) == \E f \in fs : f.path = path /\ f.is_dir

\* os.listdir: the names in a directory, in no order
ListDir(fs, dir) ==
    {Basename(f.path) : f \in {g \in fs : Len(g.path) > 1 /\ DirnameOf(g.path) = dir}}

\* the orders os.listdir may return the names in
Listings(names) ==
    {l \in [1..Cardinality(names) -> names] :
        \A i, j \in 1..Cardinality(names) : i # j => l[i] # l[j]}

\* match_candidate, the scan of the directory: the first file of the listing
\* that starts with the name, <<>> for None
match_candidate_by_listing(fs, path_gt_file_pattern, listing) ==
    LET gt_filename == Basename(path_gt_file_pattern)
        gt_dir == DirnameOf(path_gt_file_pattern)
        gt_files == SelectSeq(listing, LAMBDA f :
                        EndsWith(f, <<".", "x", "m", "l">>) \/ EndsWith(f, <<".", "t", "x", "t">>))
        fits == SelectSeq(gt_files, LAMBDA f : StartsWith(f, gt_filename))
    IN IF fits # <<>> THEN Join(gt_dir, <<fits[1]>>) ELSE <<>>

\* match_candidate: the path found, <<>> for None; listing is what os.listdir
\* returns for the directory of the pattern
match_candidate(fs, path_gt_file_pattern, listing) ==
    LET gt_filename == Basename(path_gt_file_pattern)
        gt_path_xml == [path_gt_file_pattern EXCEPT
                            ![Len(path_gt_file_pattern)] = @ \o <<".", "x", "m", "l">>]
    IN IF Exists(fs, gt_path_xml) THEN gt_path_xml
       ELSE match_candidate_by_listing(fs, path_gt_file_pattern, listing)

\* find_groundtruth, "while candidate_root_dir != _segm_cand": the state
\* [path_segmts, _segm_cand, _segm_gt, raised] after the loop; list.pop of an
\* empty list raises IndexError
RECURSIVE StripSegments(_, _)
StripSegments(st, candidate_root_dir) ==
    IF SameString(candidate_root_dir, st._segm_cand) THEN st
    ELSE IF st.path_segmts = <<>> THEN [st EXCEPT !.raised = "IndexError"]
    ELSE StripSegments(
            [st EXCEPT !._segm_gt = Append(@, st._segm_cand),
                       !._segm_cand = st.path_segmts[Len(st.path_segmts)],
                       !.path_segmts = SubSeq(@, 1, Len(@) - 1)],
            candidate_root_dir)

Reverse(s) == [i \in 1..Len(s) |-> s[Len(s) + 1 - i]]

\* find_groundtruth up to the test of the parent directory: the pattern
\* groundtruth_filepath and the error raised
GroundtruthFilepath(fs, path_candidate, root_candidates, root_groundtruth) ==
    LET file_name == Basename(path_candidate)
        path_segmts == DirnameOf(path_candidate)
        candidate_root_dir == IF IsDir(fs, root_candidates)
                              THEN <<Basename(root_candidates)>>
                              ELSE DirnameOf(root_candidates)
        st == StripSegments(
                [path_segmts |-> SubSeq(path_segmts, 1, Len(path_segmts) - 1),
                 _segm_cand |-> path_segmts[Len(path_segmts)],
                 _segm_gt |-> <<SplitextRoot(file_name)>>,
                 raised |-> "none"],
                candidate_root_dir)
    IN [raised |-> st.raised,
        path |-> Join(root_groundtruth, Reverse(st._segm_gt))]

\* find_groundtruth: the path returned, <<>> for None, and the error raised;
\* listing is what os.listdir returns for the directory of the pattern
find_groundtruth(fs, path_candidate, root_candidates, root_groundtruth, listing) ==
    LET pattern == GroundtruthFilepath(fs, path_candidate, root_candidates,
                                       root_groundtruth)
    IN IF pattern.raised # "none" THEN [raised |-> pattern.raised, path |-> <<>>]
       ELSE IF Exists(fs, DirnameOf(pattern.path))
       THEN [raised |-> "none", path |-> match_candidate(fs, pattern.path, listing)]
       ELSE [raised |-> "none", path |-> <<>>]

\* the code point of a character of the names
CharCode(c) ==
    CASE c = "." -> 46 [] c = "/" -> 47 [] c = "0" -> 48 [] c = "1" -> 49
      [] c = "a" -> 97 [] c = "c" -> 99 [] c = "g" -> 103 [] c = "j" -> 106
      [] c = "m" -> 109 [] c = "p" -> 112 [] c = "t" -> 116 [] c = "w" -> 119
      [] OTHER -> 120

\* os.sep.join(path)
RECURSIVE PathString(_)
PathString(path) ==
    IF Len(path) = 1 THEN path[1]
    ELSE path[1] \o <<"/">> \o PathString(Tail(path))

\* s < t for strings
RECURSIVE StringLess(_, _)
StringLess(s, t) ==
    IF t = <<>> THEN FALSE
    ELSE IF s = <<>> THEN TRUE
    ELSE IF Head(s) # Head(t) THEN CharCode(Head(s)) < CharCode(Head(t))
    ELSE StringLess(Tail(s), Tail(t))

\* candidates.sort(key=lambda e: e.path_c)
RECURSIVE SortCandidates(_)
SortCandidates(paths) ==
    IF paths = {} THEN <<>>
    ELSE LET first == CHOOSE p \in paths :
                        \A q \in paths \ {p} : StringLess(PathString(p), PathString(q))
         IN <<EvalEntry(first)>> \o SortCandidates(paths \ {first})

\* gather_candidates: the .xml files below a directory in path order, or the
\* one file that was named
gather_candidates(fs, start_path) ==
    IF IsDir(fs, start_path)
    THEN SortCandidates({f.path : f \in {g \in fs :
            /\ ~g.is_dir
            /\ Len(g.path) > Len(start_path)
            /\ SubSeq(g.path, 1, Len(start_path)) = start_path
            /\ EndsWith(Basename(g.path), <<".", "x", "m", "l">>)}})
    ELSE <<EvalEntry(start_path)>>

\* ------------------------------------------------------------------------
\* A candidate tree and a groundtruth tree that mirrors it
\* ------------------------------------------------------------------------

\* the names of the fixture
NameOfCandidates == <<"c">>
NameOfGroundtruth == <<"g">>
DirNames == {<<"a">>, NameOfCandidates}
CandidateName == <<"1", ".", "x", "m", "l">>
SiblingName == <<"1", "0", ".", "x", "m", "l">>

\* the names a groundtruth file of candidate 1.xml is given
PairNames ==
    {<<"1", ".", "x", "m", "l">>,
     <<"1", ".", "g", "t", ".", "x", "m", "l">>,
     <<"1", ".", "t", "x", "t">>}

\* other files of a groundtruth directory: the groundtruth of candidate
\* 10.xml, a groundtruth of no candidate, an image
SiblingPair == <<"1", "0", ".", "g", "t", ".", "x", "m", "l">>

OtherNames ==
    {SiblingPair,
     <<"x", ".", "x", "m", "l">>,
     <<"1", ".", "j", "p", "g">>}

\* a directory and the directories above it, below (and with) a root
DirsTo(root, rel) ==
    {[path |-> root \o SubSeq(rel, 1, n), is_dir |-> TRUE, pair |-> <<>>] :
        n \in 0..Len(rel)}

File(path, pair) == [path |-> path, is_dir |-> FALSE, pair |-> pair]

\* the file system: the candidate 1.xml in the directory rel below the
\* candidate root; if mirrored, the groundtruth directory rel with the
\* groundtruth file of the candidate and the other files; the candidate
\* 10.xml beside 1.xml if its groundtruth is among the other files
Fixture(root_c, root_g, rel, mirrored, pair_name, others) ==
    DirsTo(root_c, rel)
    \cup {File(root_c \o rel \o <<CandidateName>>, <<>>)}
    \cup (IF SiblingPair \in others
          THEN {File(root_c \o rel \o <<SiblingName>>, <<>>)} ELSE {})
    \cup {[path |-> root_g, is_dir |-> TRUE, pair |-> <<>>]}
    \cup (IF mirrored
          THEN DirsTo(root_g, rel)
               \cup {File(root_g \o rel \o <<pair_name>>,
                          root_c \o rel \o <<CandidateName>>)}
               \cup {File(root_g \o rel \o <<name>>,
                          IF name = SiblingPair
                          THEN root_c \o rel \o <<SiblingName>> ELSE <<>>) :
                        name \in others}
          ELSE {})

\* the candidate root: the directory /c, or the one candidate file, named by
\* its absolute path or by a path relative to the working directory
InitMatch ==
    /\ InitEvaluator
    /\ NoDocument
    /\ evaluation_map = <<>>
    /\ evaluation_results = <<>>
    /\ calls = 0
    /\ last_call = NoCall
    /\ stripped = <<>>
    /\ raised = "none"
    /\ type_groundtruth = NOT_SET
    /\ path_groundtruth = <<>>
    /\ \E n \in 0..MaxDepth, absolute \in BOOLEAN, explicit_file \in BOOLEAN,
          mirrored \in BOOLEAN, pair_name \in PairNames, others \in SUBSET OtherNames :
        \E rel \in [1..n -> DirNames] :
            LET root_c == IF absolute THEN <<EmptyName, NameOfCandidates>>
                          ELSE <<NameOfCandidates>>
                root_g == <<EmptyName, NameOfGroundtruth>>
            IN /\ absolute \/ explicit_file
               /\ files = Fixture(root_c, root_g, rel, mirrored, pair_name, others)
               /\ domain_candidate =
                    [parts |-> IF explicit_file THEN root_c \o rel \o <<CandidateName>>
                               ELSE root_c,
                     is_dir |-> ~explicit_file]
               /\ domain_reference = root_g

\* entries = gather_candidates(root_candidates)
GatherCandidates ==
    /\ pc = "idle"
    /\ entries = <<>>
    /\ entries' = gather_candidates(files, domain_candidate.parts)
    /\ pc' = "gathered"
    /\ UNCHANGED <<sequential, evaluation_entries, metrics_heap, pool, timed_out,
                   aggVars, raised, docVars, matchVars>>

\* find_groundtruth(entry.path_c, root_candidates, root_groundtruth) for one
\* of the entries gathered
FindGroundtruth(k) ==
    /\ pc \in {"gathered", "matched"}
    /\ k \in 1..Len(entries)
    /\ LET pattern == GroundtruthFilepath(files, entries[k].path_c,
                                          domain_candidate.parts, domain_reference)
       IN \E listing \in Listings(ListDir(files, DirnameOf(pattern.path))) :
            LET found == find_groundtruth(files, entries[k].path_c,
                                          domain_candidate.parts, domain_reference,
                                          listing)
            IN /\ path_groundtruth' = [path_candidate |-> entries[k].path_c,
                                       path |-> found.path]
               /\ raised' = found.raised
    /\ pc' = "matched"
    /\ UNCHANGED <<entries, sequential, evaluation_entries, metrics_heap, pool,
                   timed_out, domain_candidate, domain_reference, evaluation_map,
                   evaluation_results, calls, last_call, stripped, docVars,
                   type_groundtruth,
                   files>>

NextMatch ==
    \/ GatherCandidates
    \/ \E k \in 1..Len(entries) : FindGroundtruth(k)

SpecMatch == InitMatch /\ [][NextMatch]_vars

\* ------------------------------------------------------------------------
\* Claims about the matching
\* ------------------------------------------------------------------------

\* the directory of a candidate relative to the candidate root directory
RelativeDir(path_candidate, root_candidates) ==
    SubSeq(path_candidate, Len(root_candidates) + 1, Len(path_candidate) - 1)

\* C11: with a directory as candidate root and a groundtruth tree that
\* mirrors it, find_groundtruth returns for a candidate the groundtruth file
\* the candidate was paired with, whatever other files the directory holds.
C11_MatchingRoundTrip ==
    (/\ pc = "matched"
     /\ domain_candidate.is_dir
     /\ \E f \in files : f.pair = path_groundtruth.path_candidate) =>
        /\ raised = "none"
        /\ \E f \in files :
            /\ f.pair = path_groundtruth.path_candidate
            /\ f.path = path_groundtruth.path

\* C12: find_groundtruth raises no error, and returns None if the directory
\* that mirrors the directory of the candidate does not exist under the
\* groundtruth root.
C12_FailsSilently ==
    pc = "matched" =>
        /\ raised = "none"
        /\ LET rel == IF domain_candidate.is_dir
                      THEN RelativeDir(path_groundtruth.path_candidate,
                                       domain_candidate.parts)
                      ELSE <<>>
           IN ~Exists(files, domain_reference \o rel) => path_groundtruth.path = <<>>

\* ------------------------------------------------------------------------
\* The groundtruth type of a document: OCRData.__init__, ocr_to_text and
\* the type eval_entry stores
\* ------------------------------------------------------------------------

\* most OtherTag elements of an ALTO document
MaxTags == 2

ARTICLE == <<"a", "r", "t", "i", "c", "l", "e">>
ANNOUNCEMENT == <<"a", "n", "n", "o", "u", "n", "c", "e", "m", "e", "n", "t">>

\* the characters \w matches, of those the file names are written with
WordChars ==
    {"a", "b", "c", "d", "e", "f", "g", "h", "i", "j", "k", "l", "m", "n",
     "o", "p", "q", "r", "s", "t", "u", "v", "w", "x", "y", "z", "A", "_",
     "0", "1", "2", "3", "4", "5", "6", "7", "8", "9"}

\* \w{3,} matches the whole of s
IsWord(s) == Len(s) >= 3 /\ \A i \in 1..Len(s) : s[i] \in WordChars

\* the positions i of file_name where r'.*gt.(\w{3,}).xml$' matches with
\* "gt" at i: "gt", any character, the group, any character, "xml" at the end
GtMatches(file_name) ==
    LET n == Len(file_name) IN
    {i \in 1..n :
        /\ i + 1 <= n
        /\ file_name[i] = "g"
        /\ file_name[i + 1] = "t"
        /\ i + 2 <= n - 7
        /\ IsWord(SubSeq(file_name, i + 3, n - 4))
        /\ SubSeq(file_name, n - 2, n) = <<"x", "m", "l">>}

\* the positions j of file_name where r'.*\.(\w{3,})\.gt\.xml$' matches with
\* the first "\." at j
AlternativeMatches(file_name) ==
    LET n == Len(file_name) IN
    {j \in 1..n :
        /\ file_name[j] = "."
        /\ j <= n - 10
        /\ IsWord(SubSeq(file_name, j + 1, n - 7))
        /\ SubSeq(file_name, n - 6, n) = <<".", "g", "t", ".", "x", "m", "l">>}

\* OCRData._get_groundtruth_from_filename: type_groundtruth after the call;
\* the greedy '.*' makes the last "gt" that matches the one of the group
_get_groundtruth_from_filename(type_gt, file_name) ==
    LET n == Len(file_name)
        result == GtMatches(file_name)
        alternative == AlternativeMatches(file_name)
    IN IF result # {}
       THEN LET i == CHOOSE i \in result : \A k \in result : k <= i
            IN SubSeq(file_name, i + 3, n - 4)
       ELSE IF alternative # {}
       THEN LET j == CHOOSE j \in alternative : TRUE
            IN SubSeq(file_name, j + 1, n - 7)
       ELSE type_gt

\* self.get_type_groundtruth is None: the attribute is the bound method, which
\* is never None
get_type_groundtruth_is_None == FALSE

\* the 'handle groundtruth type' part of OCRData._extract_alto_data:
\* type_groundtruth after it, gt_type_el the OtherTag elements of the document
_extract_alto_type(type_gt, gt_type_el) ==
    IF Len(gt_type_el) > 0
    THEN LET label == gt_type_el[1].LABEL IN
         IF label # <<>>
         THEN label
         ELSE IF get_type_groundtruth_is_None
         THEN LET gt_els == SelectSeq(gt_type_el,
                                LAMBDA e : e.ID = "ulb_groundtruth_type")
              IN IF Len(gt_els) = 1 /\ gt_els[1].VALUE # <<>>
                 THEN gt_els[1].VALUE
                 ELSE type_gt
         ELSE type_gt
    ELSE type_gt

\* xml.dom.minidom.parse and the dispatch of OCRData._read_data on the format
\* of the file: the error raised, or "none"
ReadRaises(format) ==
    CASE format = "text" -> "ExpatError"
      [] format \in {"alto", "page2013", "PcGts"} -> "none"
      [] OTHER -> "RuntimeError"

\* OCRData.__init__ as far as the groundtruth type goes: the error raised
\* and type_groundtruth as the constructor leaves it
OCRDataType(doc) ==
    LET from_name == _get_groundtruth_from_filename(NOT_SET, doc.path_in)
    IN [raised |-> ReadRaises(doc.format),
        type_groundtruth |-> IF doc.format = "alto"
                             THEN _extract_alto_type(from_name, doc.OtherTag)
                             ELSE from_name]

\* the gt_type ocr_to_text returns for a file OCRData was built of
ocr_to_text_type(ocr_raised, type_gt) ==
    IF ocr_raised = "ExpatError" THEN NOT_SET
    ELSE IF type_gt # <<>> THEN type_gt
    ELSE NOT_SET

\* the file names of groundtruth: a stem, and a label by one of the naming
\* conventions or none
Stem == <<"d", "o", "c">>
FileLabels ==
    {ARTICLE, <<"a", "r", "t">>, <<"a", "n", "n", "e", "x">>,
     <<"n", "o", "t", "i", "c", "e">>, <<"a", "r">>, <<"A", "r", "t">>}
FileNames ==
    {Stem \o <<".", "x", "m", "l">>, Stem \o <<".", "g", "t", ".", "x", "m", "l">>}
    \cup {Stem \o <<"_", "g", "t", ".">> \o l \o <<".", "x", "m", "l">> : l \in FileLabels}
    \cup {Stem \o <<".">> \o l \o <<".", "g", "t", ".", "x", "m", "l">> : l \in FileLabels}
    \cup {Stem \o <<"_", "g", "t", ".">> \o ARTICLE \o <<".", "t", "x", "t">>}

\* the OtherTag elements a document may hold; a missing attribute reads ''
OtherTags ==
    [LABEL : {<<>>, ARTICLE},
     ID : {"ulb_groundtruth_type", "ulb_other"},
     VALUE : {<<>>, ANNOUNCEMENT}]

Formats == {"alto", "page2013", "PcGts", "text", "html"}

\* a groundtruth file that nothing has read yet
InitType ==
    /\ NoEvaluator
    /\ pc = "file"
    /\ blocks = <<>>
    /\ frame = NoFrame
    /\ filter_lines = <<>>
    /\ top_piece = <<>>
    /\ raised = "none"
    /\ NoMatching
    /\ \E path_in \in FileNames, format \in Formats, n \in 0..MaxTags :
        \E gt_type_el \in [1..n -> OtherTags] :
            xml_doc = [path_in |-> path_in, format |-> format,
                       OtherTag |-> gt_type_el]

\* ocr_data = OCRData(path_g)
NewOCRData ==
    /\ pc = "file"
    /\ LET ocr_data == OCRDataType(xml_doc)
       IN /\ type_groundtruth' = ocr_data.type_groundtruth
          /\ raised' = ocr_data.raised
    /\ pc' = "ocr_data"
    /\ UNCHANGED <<entries, sequential, evaluation_entries, metrics_heap, pool,
                   timed_out, aggVars, docVars, files, path_groundtruth>>

\* the rest of eval_entry for a groundtruth that holds text: the entry gets
\* the normalized type of what ocr_to_text returned and is recorded
EvalEntryType ==
    /\ pc = "ocr_data"
    /\ raised # "RuntimeError"
    /\ LET gt_type == ocr_to_text_type(raised, type_groundtruth)
           entry == [EvalEntry(<<"c", ".", "x", "m", "l">>) EXCEPT
                        !.path_g = xml_doc.path_in,
                        !.gt_type = _normalize_gt_type(gt_type),
                        !.metrics = SelfMetrics]
       IN evaluation_entries' = Append(evaluation_entries, entry)
    /\ pc' = "evaluated"
    /\ UNCHANGED <<entries, sequential, metrics_heap, pool, timed_out, aggVars,
                   raised, docVars, matchVars>>

NextType == NewOCRData \/ EvalEntryType

SpecType == InitType /\ [][NextType]_vars

\* the entry eval_entry recorded last
LastEvaluated == evaluation_entries[Len(evaluation_entries)]

\* the label ocr_to_text extracted from the groundtruth file
ExtractedLabel == IF raised = "ExpatError" THEN NOT_SET ELSE type_groundtruth

\* the document is XML and holds no OtherTag that OCRData reads
TypeFromFilename ==
    /\ raised = "none"
    /\ xml_doc.format = "alto" => xml_doc.OtherTag = <<>>

\* C13: the type stored on an evaluated entry is 'article' if the label
\* extracted from the groundtruth starts with 'art', 'announcement' if it
\* starts with 'ann' and 'n.a.' otherwise; the file name doc_gt.article.xml
\* yields 'article', doc_gt.notice.xml yields 'n.a.'; the type is always one
\* of these three values.
C13_TypeNormalized ==
    pc = "evaluated" =>
        /\ StartsWith(ExtractedLabel, <<"a", "r", "t">>) =>
                LastEvaluated.gt_type = ARTICLE
        /\ StartsWith(ExtractedLabel, <<"a", "n", "n">>) =>
                LastEvaluated.gt_type = ANNOUNCEMENT
        /\ (/\ ~StartsWith(ExtractedLabel, <<"a", "r", "t">>)
            /\ ~StartsWith(ExtractedLabel, <<"a", "n", "n">>)) =>
                LastEvaluated.gt_type = NOT_SET
        /\ (/\ TypeFromFilename
            /\ xml_doc.path_in = Stem \o <<"_", "g", "t", ".">> \o ARTICLE
                                      \o <<".", "x", "m", "l">>) =>
                LastEvaluated.gt_type = ARTICLE
        /\ (/\ TypeFromFilename
            /\ xml_doc.path_in = Stem \o <<"_", "g", "t", ".", "n", "o", "t", "i", "c", "e",
                                           ".", "x", "m", "l">>) =>
                LastEvaluated.gt_type = NOT_SET
        /\ LastEvaluated.gt_type \in {ARTICLE, ANNOUNCEMENT, NOT_SET}

\* an entry was evaluated against doc_gt.article.xml, a document without
\* OtherTag, and its type is 'article'
C13_Witness ==
    /\ pc = "evaluated"
    /\ TypeFromFilename
    /\ xml_doc.path_in = Stem \o <<"_", "g", "t", ".">> \o ARTICLE \o <<".", "x", "m", "l">>
    /\ ExtractedLabel = ARTICLE
    /\ LastEvaluated.gt_type = ARTICLE

\* the OtherTag elements of the document with the id of the groundtruth type
TagsByID == SelectSeq(xml_doc.OtherTag, LAMBDA e : e.ID = "ulb_groundtruth_type")

\* C17: the groundtruth type of an ALTO document is the LABEL of the first
\* OtherTag if that is not empty; otherwise the VALUE of the one OtherTag
\* with the ID 'ulb_groundtruth_type' if there is exactly one and its VALUE
\* is not empty; otherwise the type derived from the file name, or 'n.a.'.
C17_AltoTypeSource ==
    (pc = "ocr_data" /\ xml_doc.format = "alto") =>
        IF Len(xml_doc.OtherTag) > 0 /\ xml_doc.OtherTag[1].LABEL # <<>>
        THEN type_groundtruth = xml_doc.OtherTag[1].LABEL
        ELSE IF Len(TagsByID) = 1 /\ TagsByID[1].VALUE # <<>>
        THEN type_groundtruth = TagsByID[1].VALUE
        ELSE type_groundtruth = _get_groundtruth_from_filename(NOT_SET, xml_doc.path_in)

\* ------------------------------------------------------------------------
\* Claims about the outlier fence
\* ------------------------------------------------------------------------

\* twice the median of a list of integers that is not empty
TwiceMedian(s) ==
    LET n == Len(s)
        sorted == SortInts(s)
    IN IF n % 2 = 1 THEN 2 * sorted[(n + 1) \div 2]
       ELSE sorted[n \div 2] + sorted[n \div 2 + 1]

\* the values of a list strictly below and strictly above its median
BelowMedian(s) == SelectSeq(s, LAMBDA v : 2 * v < TwiceMedian(s))
AboveMedian(s) == SelectSeq(s, LAMBDA v : 2 * v > TwiceMedian(s))

\* Q1 and Q3 of the list are defined
QuartilesDefined(s) == BelowMedian(s) # <<>> /\ AboveMedian(s) # <<>>

\* Q1 - 1.5*(Q3-Q1) <= v <= Q1 + 1.5*(Q3-Q1), for the quartiles of s
InFence(s, v) ==
    LET twiceQ1 == TwiceMedian(BelowMedian(s))
        twiceQ3 == TwiceMedian(AboveMedian(s))
    IN /\ 2 * twiceQ1 - 3 * (twiceQ3 - twiceQ1) <= 4 * v
       /\ 4 * v <= 2 * twiceQ1 + 3 * (twiceQ3 - twiceQ1)

C18_ClearedOverSurvivors ==
    \A n \in 1..Len(evaluation_results) :
        LET result == evaluation_results[n] IN
        result.cleared_result # NoResult =>
            /\ QuartilesDefined(DataPoints(ValuesOf(result)))
            /\ result.cleared_result[1].n_total >= 1

\* ------------------------------------------------------------------------
\* Claims about the metric indices of aggregate
\* ------------------------------------------------------------------------

\* C16: aggregate() skips every requested index for which the entries carry
\* no metric, an index >= the number of metrics, without raising an error,
\* and aggregates every other requested index: the value of every entry
\* below the root folder is in the value list of the metric's top-level key.
C16_SkipsMissingIndex ==
    (/\ last_call.op = "aggregate"
     /\ calls = 1
     /\ ~PreconditionsFail
     /\ domain_reference # NoReference) =>
        /\ raised = "none"
        /\ \A n \in 1..Len(last_call.by_metrics), k \in 1..Len(evaluation_entries) :
            LET index == last_call.by_metrics[n]
                ee == evaluation_entries[k]
                ms == MetricsOf(metrics_heap, ee)
                root_base == domain_reference[Len(domain_reference)]
            IN (index < Len(ms) /\ root_base \in Range(Dirname(ee.path_c))) =>
                <<ee.path_c, ms[index + 1].value, ms[index + 1].n_ref>>
                    \in Range(MapGet(evaluation_map,
                                     PathKey(ms[index + 1].label, root_base)))

\* ------------------------------------------------------------------------
\* Repeated calls of aggregate and eval_map on one Evaluator
\* ------------------------------------------------------------------------

\* most calls of aggregate and eval_map in a row
MaxRepeats == 3

\* an Evaluator after eval_all whose candidate root is a directory and
\* whose reference root has the name of the candidate root
InitRepeat ==
    /\ pc = "done"
    /\ pool = <<>>
    /\ timed_out = FALSE
    /\ \E n \in 1..MaxEntries : \E es \in EvaluatedListsOfLen(n), seq \in BOOLEAN :
        /\ entries = es
        /\ sequential = seq
        /\ evaluation_entries = AfterEvalAll(es, seq).evs
        /\ metrics_heap = AfterEvalAll(es, seq).heap
    /\ domain_candidate = [parts |-> <<"/", "cand">>, is_dir |-> TRUE]
    /\ domain_reference = <<"/", "gt", "cand">>
    /\ evaluation_map = <<>>
    /\ evaluation_results = <<>>
    /\ calls = 0
    /\ last_call = NoCall
    /\ stripped = <<>>
    /\ raised = "none"
    /\ NoDocument
    /\ NoMatching

\* aggregate(by_type, [0])
AggregateAgain ==
    /\ pc = "done"
    /\ calls < MaxRepeats
    /\ \E by_type \in BOOLEAN :
        LET r == aggregate(evaluation_map, metrics_heap, evaluation_entries,
                           domain_candidate, domain_reference, by_type, <<0>>)
        IN /\ evaluation_map' = r.map
           /\ raised' = r.raised
           /\ last_call' = [op |-> "aggregate", by_type |-> by_type,
                            by_metrics |-> <<0>>]
    /\ calls' = calls + 1
    /\ UNCHANGED <<evalVars, domain_candidate, domain_reference,
                   evaluation_results, stripped, docVars, matchVars>>

\* eval_map()
EvalMapAgain ==
    /\ pc = "done"
    /\ calls < MaxRepeats
    /\ evaluation_results' = eval_map(evaluation_results, evaluation_map)
    /\ raised' = "none"
    /\ last_call' = [op |-> "eval_map", by_type |-> FALSE, by_metrics |-> <<>>]
    /\ calls' = calls + 1
    /\ UNCHANGED <<evalVars, domain_candidate, domain_reference, evaluation_map,
                   stripped, docVars, matchVars>>

NextRepeat == AggregateAgain \/ EvalMapAgain

SpecRepeat == InitRepeat /\ [][NextRepeat]_vars

\* the map of one aggregation of the evaluated entries, by type as well
SingleAggregation ==
    aggregate(<<>>, metrics_heap, evaluation_entries, domain_candidate,
              domain_reference, TRUE, <<0>>).map

\* C15: after eval_map(), whatever calls of aggregate() and eval_map() came
\* before, evaluation_results holds exactly one result for each key of
\* evaluation_map, in strictly ascending order of the keys, and the count of
\* each result is the number of values one aggregation of the evaluated
\* entries records for its key.
C15_OneResultPerKey ==
    last_call.op = "eval_map" =>
        /\ \A i \in 1..Len(evaluation_map) :
            Cardinality({n \in 1..Len(evaluation_results) :
                            evaluation_results[n].eval_key = evaluation_map[i].key}) = 1
        /\ \A n \in 1..Len(evaluation_results) :
            HasKey(evaluation_map, evaluation_results[n].eval_key)
        /\ \A n \in 1..(Len(evaluation_results) - 1) :
            KeyLess(evaluation_results[n].eval_key, evaluation_results[n + 1].eval_key)
        /\ \A n \in 1..Len(evaluation_results) :
            evaluation_results[n].n_total =
                Len(MapGet(SingleAggregation, evaluation_results[n].eval_key))

====
